---- MODULE Spec2Model ----
(***************************************************************************)
(* Model of smart_scraper_ten: the leader election and the query endpoints *)
(* of main.py, the fast polling lane, the quarantine logic, the slow lane  *)
(* and its worker pool, start() and stop() of background_service.py, the   *)
(* stall monitor of monitoring.py, the archiver of archiver.py and the two *)
(* copies of the head-to-head parser.                                      *)
(*                                                                         *)
(* Time is counted in ticks.  Every duration of the program (lease TTL,    *)
(* follower delay, quarantine period, stall threshold, stale threshold)    *)
(* is a number of ticks; asyncio.sleep(d) returns after at least d ticks.  *)
(***************************************************************************)
EXTENDS Integers, FiniteSets, Sequences, TLC

\* ------------------------------------------------------------------ bounds
NumReplicas == 2
LeaseTtlTicks == 2
FollowerTicks == 1

NumIds == 2
MaxGrace == 1
StallTicks == 1
StaleTicks == 1
MaxTime == 3
PoolSize == 2
MaxStarts == 2
MaxH2HLen == 9

Replicas == 1..NumReplicas
None == -1
Ids == 1..NumIds
Workers == 1..PoolSize
Gens == 1..MaxStarts
Lanes == {"fast", "slow"}

\* ------------------------------------------------------------------- state
VARIABLES
    lease,      \* the Redis key LEADER_LOCK_KEY: [holder, ttl], holder None when absent
    pc,         \* position of each replica's _election_loop task
    sleepLeft,  \* ticks left of the asyncio.sleep a replica is in
    running,    \* ScrapingService.is_running() of each replica
    clock,              \* datetime.now(timezone.utc), in ticks
    active,             \* collection "tenipo": _id -> document
    history,            \* collection "tenipo_history": the _ids it holds
    quarantine_zone,    \* ScrapingService.quarantine_zone: id -> quarantined_at
    QUARANTINE_PERIOD,  \* ScrapingService.QUARANTINE_PERIOD
    live_data_cache,    \* ScrapingService.live_data_cache: [data, last_updated]
    match_states,       \* StallMonitor._match_states: id -> [score_hash, last_updated, alert_sent]
    alerts,             \* per tracked id: send_alert calls since its last_updated was set
    checkedAt,          \* per tracked id: time of the last check that saw it LIVE
    lastCycle,          \* what the fast cycle that has just ended did
    fastPhase,          \* fast lane: "ready" to run a cycle, or "sleeping" after one
    lastArchive,        \* the last call of MongoArchiver._process_archiving
    removed,            \* ids deleted from "tenipo" by the archive step and by the stale sweep
    historyCopies,      \* collection "tenipo_history": number of documents per _id
    slowPhase,          \* position of the _leisurely_detailed_enrichment task
    detail_scraper_pool, \* ScrapingService.detail_scraper_pool: [ready, queue]; None is ready = FALSE
    all_workers,        \* ScrapingService.all_workers
    created_workers,    \* created_workers of the running _ensure_detail_worker_pool
    openWorkers,        \* detail scrapers whose driver was started and not closed
    taskPc,             \* position of the enrichment task of each id
    worker,             \* the local `worker` of the enrichment task of each id
    current_match,      \* the local `current_match` of the enrichment tasks that read one
    svcPc,              \* where the election loop stands in service.start() / service.stop()
    starts,             \* number of calls of ScrapingService.start so far
    fast_polling_task,  \* ScrapingService.fast_polling_task: None or the task of a start
    slow_polling_task,  \* ScrapingService.slow_polling_task: None or the task of a start
    laneTask,           \* state of the task of each lane created by each start
    main_scraper,       \* ScrapingService.main_scraper: None or the scraper of a start
    mongo_manager,      \* ScrapingService.mongo_manager: None or the manager of a start
    openScrapers,       \* main scrapers whose driver was started and not closed
    openClients,        \* managers whose MongoClient is connected and not closed
    all_scrapers,       \* the scrapers the loop of stop() has still to close
    lastStop,           \* how the last stop() ended: "none", "returned", "raised"
    h2h_str,            \* the argument of _parse_h2h_string: a string as the sequence of its characters
    meetings,           \* what the two copies of _parse_h2h_string returned for h2h_str
    sent                \* number of calls of notifier.send_alert for each id

electionVars == <<lease, pc, sleepLeft, running>>

archiverVars == <<lastArchive, removed, historyCopies>>

slowVars == <<slowPhase, detail_scraper_pool, all_workers, created_workers, openWorkers,
              taskPc, worker, current_match>>

lifeVars == <<svcPc, starts, fast_polling_task, slow_polling_task, laneTask, main_scraper,
              mongo_manager, openScrapers, openClients, all_scrapers, lastStop>>

parserVars == <<h2h_str, meetings>>

notifierVars == <<sent>>

pollerVars == <<clock, active, history, quarantine_zone, QUARANTINE_PERIOD,
                live_data_cache, match_states, alerts, checkedAt, lastCycle, fastPhase,
                lastArchive, removed, historyCopies, slowPhase, detail_scraper_pool,
                all_workers, created_workers, openWorkers, taskPc, worker, current_match,
                lifeVars, parserVars, notifierVars>>

vars == <<lease, pc, sleepLeft, running, clock, active, history, quarantine_zone,
          QUARANTINE_PERIOD, live_data_cache, match_states, alerts, checkedAt,
          lastCycle, fastPhase, lastArchive, removed, historyCopies, slowPhase,
          detail_scraper_pool, all_workers, created_workers, openWorkers, taskPc, worker,
          current_match, svcPc, starts, fast_polling_task, slow_polling_task, laneTask,
          main_scraper, mongo_manager, openScrapers, openClients, all_scrapers, lastStop,
          h2h_str, meetings, sent>>

NoLease == [holder |-> None, ttl |-> 0]

\* ------------------------------------------------- Distributed Lock Service
\* A plain SET, which overwrites the key whatever it holds.
RedisSetAlways(l, r) ==
    [lease |-> [holder |-> r, ttl |-> LeaseTtlTicks], acquired |-> TRUE]

\* A set-if-absent without ex=: the key gets no TTL (ttl 0) and never
\* expires.
RedisSetNxNoExpiry(l, r) ==
    IF l.holder = None
    THEN [lease |-> [holder |-> r, ttl |-> 0], acquired |-> TRUE]
    ELSE [lease |-> l, acquired |-> FALSE]

\* redis.set(key, value, nx=True, ex=ttl): the stored lease after the call
\* and the reply (acquired or not).
RedisSetNx(l, r) ==
    IF l.holder = None
    THEN [lease |-> [holder |-> r, ttl |-> LeaseTtlTicks], acquired |-> TRUE]
    ELSE [lease |-> l, acquired |-> FALSE]

\* redis.expire(key, ttl): resets the TTL of the key if the key exists,
\* whoever its value names.
RedisExpire(l) ==
    IF l.holder = None THEN l ELSE [l EXCEPT !.ttl = LeaseTtlTicks]

\* ----------------------------------------------- background_service.py
NoCycle ==
    [ok |-> FALSE, raised |-> FALSE, live |-> {}, newly |-> {}, reappeared |-> {},
     overdueReappeared |-> {}, batch |-> {}]

NoArchive == [batch |-> {}, safe |-> {}, dup |-> {}, failed |-> FALSE]

EmptyMap == [id \in {} |-> 0]

NoPool == [ready |-> FALSE, queue |-> {}]

\* ScrapingService.__init__: no slow task, no pool, no workers.
InitSlowLane ==
    /\ slowPhase = "stopped"
    /\ detail_scraper_pool = NoPool
    /\ all_workers = {}
    /\ created_workers = {}
    /\ openWorkers = {}
    /\ taskPc = [id \in Ids |-> "none"]
    /\ worker = [id \in Ids |-> None]
    /\ current_match = EmptyMap

\* ScrapingService.__init__: no task, no scraper, no manager; start() was
\* never called.
InitLifecycle ==
    /\ svcPc = "start"
    /\ starts = 0
    /\ fast_polling_task = None
    /\ slow_polling_task = None
    /\ laneTask = [l \in Lanes |-> [g \in Gens |-> "none"]]
    /\ main_scraper = None
    /\ mongo_manager = None
    /\ openScrapers = {}
    /\ openClients = {}
    /\ all_scrapers = << >>
    /\ lastStop = "none"

\* TelegramNotifier: no alert was sent.
InitNotifier == sent = [id \in Ids |-> 0]

\* The value None of Python, among sequences of characters.
NotAString == <<"None">>

NotParsed == [done |-> FALSE, mapper |-> << >>, service |-> << >>]

\* No call of _parse_h2h_string was made.
InitNoParse ==
    /\ h2h_str = NotAString
    /\ meetings = NotParsed

\* ScrapingService.__init__ and StallMonitor.__init__: empty cache, empty
\* quarantine zone, nothing tracked.  The collections start empty.
InitService ==
    /\ clock = 0
    /\ active = EmptyMap
    /\ history = {}
    /\ quarantine_zone = EmptyMap
    /\ live_data_cache = [data |-> EmptyMap, last_updated |-> None]
    /\ match_states = EmptyMap
    /\ alerts = EmptyMap
    /\ checkedAt = EmptyMap
    /\ lastCycle = NoCycle
    /\ fastPhase = "ready"
    /\ lastArchive = NoArchive
    /\ removed = [arch |-> {}, sweep |-> {}]
    /\ historyCopies = EmptyMap
    /\ InitSlowLane
    /\ InitLifecycle
    /\ InitNotifier
    /\ InitNoParse

\* What get_live_matches_summary can report of one match: its sets and its
\* current game.  The second one stands at 6-6 in its last set.
SummaryScores ==
    { [sets |-> <<6, 4>>, game |-> "15-0"],
      [sets |-> <<6, 6>>, game |-> "1-0"] }

\* data_mapper.transform_summary_only_to_client_format: the "score" and
\* "timePolled" fields of the fast projection.  At 6-6 in the last set the
\* current game is stored as currentTiebreak and currentGame is None.
TransformSummary(sm, now) ==
    LET tiebreak == sm.sets[Len(sm.sets) - 1] = 6 /\ sm.sets[Len(sm.sets)] = 6 IN
    [ timePolled |-> now,
      score |-> [ sets |-> sm.sets,
                  currentGame |-> IF tiebreak THEN "None" ELSE sm.game,
                  currentTiebreak |-> IF tiebreak THEN sm.game ELSE "None",
                  status |-> "LIVE" ] ]

\* MongoManager.upsert_fast_data for every record of the summary: $set of
\* timePolled and score on the document of that _id, created when missing.
UpsertFastData(act, summary, now) ==
    [id \in (DOMAIN act) \cup (DOMAIN summary) |->
        IF id \in DOMAIN summary THEN TransformSummary(summary[id], now) ELSE act[id]]

\* delete_many({"_id": {"$in": ids}})
DeleteMany(act, ids) == [id \in (DOMAIN act) \ ids |-> act[id]]

\* ------------------------------------------------------------ monitoring.py
\* StallMonitor._create_score_hash.  score.get("currentGame", {}) is None for
\* a tiebreak document, None.get raises and the except branch returns the
\* current timestamp.
CreateScoreHash(doc, now) ==
    IF doc.score.currentGame = "None"
    THEN [kind |-> "time", sets |-> <<>>, game |-> "", at |-> now]
    ELSE [kind |-> "score", sets |-> doc.score.sets, game |-> doc.score.currentGame, at |-> 0]

\* previous_state["score_hash"] != current_score_hash; a timestamp hash is
\* never equal to an earlier one.
HashChanged(prev, cur) == cur.kind = "time" \/ prev # cur

\* The stall test with >= for >.
StallDueAtThreshold(st, now) ==
    now - st.last_updated >= StallTicks /\ ~st.alert_sent

\* time_since_last_update > self.stall_duration and not alert_sent
StallDue(st, now) ==
    now - st.last_updated > StallTicks /\ ~st.alert_sent

\* The ids of the snapshot that check_and_update_all looks at (status LIVE).
LiveIn(snapshot) == {id \in DOMAIN snapshot : snapshot[id].score.status = "LIVE"}

\* StallMonitor.check_and_update_all: the ids for which send_alert is called.
StallAlerts(states, snapshot, now) ==
    {id \in LiveIn(snapshot) \cap DOMAIN states :
        /\ ~HashChanged(states[id].score_hash, CreateScoreHash(snapshot[id], now))
        /\ StallDue(states[id], now)}

\* A check that leaves alert_sent as it is when the score has changed.
CheckAndUpdateAllKeepsAlertSent(states, snapshot, now) ==
    [id \in ((DOMAIN states) \cup LiveIn(snapshot)) \cap DOMAIN snapshot |->
        IF id \notin LiveIn(snapshot) THEN states[id]
        ELSE LET h == CreateScoreHash(snapshot[id], now) IN
             IF id \notin DOMAIN states
             THEN [score_hash |-> h, last_updated |-> now, alert_sent |-> FALSE]
             ELSE IF HashChanged(states[id].score_hash, h)
             THEN [score_hash |-> h, last_updated |-> now,
                   alert_sent |-> states[id].alert_sent]
             ELSE IF StallDue(states[id], now)
             THEN [states[id] EXCEPT !.alert_sent = TRUE]
             ELSE states[id]]

\* StallMonitor.check_and_update_all: _match_states after the call.  Ids that
\* are not keys of the snapshot are pruned.
CheckAndUpdateAll(states, snapshot, now) ==
    [id \in ((DOMAIN states) \cup LiveIn(snapshot)) \cap DOMAIN snapshot |->
        IF id \notin LiveIn(snapshot) THEN states[id]
        ELSE LET h == CreateScoreHash(snapshot[id], now) IN
             IF id \notin DOMAIN states \/ HashChanged(states[id].score_hash, h)
             THEN [score_hash |-> h, last_updated |-> now, alert_sent |-> FALSE]
             ELSE IF StallDue(states[id], now)
             THEN [states[id] EXCEPT !.alert_sent = TRUE]
             ELSE states[id]]

\* Bookkeeping of the alerts of the current unchanged streak of each id.
AlertsAfter(states, snapshot, now) ==
    LET after == CheckAndUpdateAll(states, snapshot, now) IN
    [id \in DOMAIN after |->
        IF id \notin LiveIn(snapshot) THEN alerts[id]
        ELSE IF id \notin DOMAIN states
             \/ HashChanged(states[id].score_hash, CreateScoreHash(snapshot[id], now))
        THEN 0
        ELSE IF id \in StallAlerts(states, snapshot, now)
        THEN (IF alerts[id] < 2 THEN alerts[id] + 1 ELSE 2)
        ELSE alerts[id]]

\* StallMonitor.check_and_update_all: one send_alert for every id of
\* alert_tasks.
SentAfter(states, snapshot, now) ==
    [id \in Ids |-> IF id \in StallAlerts(states, snapshot, now) THEN sent[id] + 1
                    ELSE sent[id]]

CheckedAtAfter(states, snapshot, now) ==
    LET after == CheckAndUpdateAll(states, snapshot, now) IN
    [id \in DOMAIN after |-> IF id \in LiveIn(snapshot) THEN now ELSE checkedAt[id]]

\* ----------------------------------------------- _handle_quarantine_logic
\* The expiry test with >= for >.
QuarantineExpiredAtPeriod(now, at, period) == now - at >= period

\* now - quarantined_at > self.QUARANTINE_PERIOD
QuarantineExpired(now, at, period) == now - at > period

\* The reconciliation pass without the release of the reappeared ids.
HandleQuarantineKeepsReappeared(zone, act, live, now, period) ==
    LET reappeared == live \cap DOMAIN zone
        ids_in_db == DOMAIN act
        newly == (ids_in_db \ live) \ DOMAIN zone
        zoned == [id \in (DOMAIN zone) \cup newly |->
                    IF id \in newly THEN now ELSE zone[id]]
        batch == {id \in DOMAIN zoned : QuarantineExpired(now, zoned[id], period)}
    IN [reappeared |-> reappeared, newly |-> newly, zone |-> zoned, batch |-> batch]

\* _handle_quarantine_logic up to the call of the archiver: the released
\* ids, the newly quarantined ids, the zone after both and the archive batch.
HandleQuarantine(zone, act, live, now, period) ==
    LET reappeared == live \cap DOMAIN zone
        released == [id \in (DOMAIN zone) \ reappeared |-> zone[id]]
        ids_in_db == DOMAIN act
        newly == (ids_in_db \ live) \ DOMAIN released
        zoned == [id \in (DOMAIN released) \cup newly |->
                    IF id \in newly THEN now ELSE released[id]]
        batch == {id \in DOMAIN zoned : QuarantineExpired(now, zoned[id], period)}
    IN [reappeared |-> reappeared, newly |-> newly, zone |-> zoned, batch |-> batch]

\* A rebuild that keeps no document of the active store.
RebuildFastCacheReadsNothing(act, now) == [data |-> EmptyMap, last_updated |-> now]

\* _rebuild_fast_cache: the snapshot holds every document of
\* get_all_active_matches by its _id, and the time of the rebuild.
RebuildFastCache(act, now) == [data |-> act, last_updated |-> now]

\* An archive call that returns without having archived anything.
ArchiveMatchesByIdsReturns == FALSE

\* self.archiver.archive_matches_by_ids: MongoArchiver defines no such
\* method, so evaluating the attribute raises AttributeError.
ArchiveMatchesByIdsRaises == TRUE

\* A loop that goes on with the (empty) summary of a failed fetch.
SummaryUsableAlways(ok) == TRUE

\* if not summary_success: skip the cycle.
SummaryUsable(ok) == ok

\* One pass of the loop of _lightning_fast_score_updates of a started
\* service (_components_ready holds).  ok and summary are what
\* get_live_matches_summary returned, the records by id.  When the archive
\* batch is not empty the call of the archiver raises, the rest of the pass
\* (the `del` of the records of the batch included) is skipped and the
\* loop's `except Exception` logs the error.
FastCycle(ok, summary) ==
    LET now == clock
        live == DOMAIN summary
        upserted == UpsertFastData(active, summary, now)
        q == HandleQuarantine(quarantine_zone, upserted, live, now, QUARANTINE_PERIOD)
        raised == q.batch # {} /\ ArchiveMatchesByIdsRaises
    IN
    /\ fastPhase = "ready"
    /\ fastPhase' = "sleeping"
    /\ IF ~SummaryUsable(ok)
       THEN /\ lastCycle' = [NoCycle EXCEPT !.ok = ok]
            /\ UNCHANGED <<active, quarantine_zone, live_data_cache, match_states,
                           alerts, checkedAt, sent>>
       ELSE /\ active' = upserted
            /\ quarantine_zone' = IF raised THEN q.zone
                                  ELSE [id \in (DOMAIN q.zone) \ q.batch |-> q.zone[id]]
            /\ lastCycle' = [ok |-> ok, raised |-> raised, live |-> live,
                             newly |-> q.newly, reappeared |-> q.reappeared,
                             overdueReappeared |->
                                {id \in q.reappeared :
                                    QuarantineExpired(now, quarantine_zone[id], QUARANTINE_PERIOD)},
                             batch |-> q.batch]
            /\ IF raised
               THEN UNCHANGED <<live_data_cache, match_states, alerts, checkedAt, sent>>
               ELSE /\ live_data_cache' = RebuildFastCache(upserted, now)
                    /\ sent' = SentAfter(match_states, upserted, now)
                    /\ match_states' = CheckAndUpdateAll(match_states, upserted, now)
                    /\ alerts' = AlertsAfter(match_states, upserted, now)
                    /\ checkedAt' = CheckedAtAfter(match_states, upserted, now)
    /\ UNCHANGED <<clock, history, QUARANTINE_PERIOD, archiverVars, slowVars, electionVars,
                   lifeVars, parserVars>>

\* A cycle whose summary fetch failed (ok = False, no records).
FastCycleFailed == FastCycle(FALSE, EmptyMap)

\* A cycle whose summary fetch succeeded.
FastCycleOk ==
    \E live \in SUBSET Ids : \E summary \in [live -> SummaryScores] :
        FastCycle(TRUE, summary)

\* await asyncio.sleep(self.FAST_POLL_INTERVAL) after a cycle: one tick, the
\* poll interval, passes before the next cycle.
TickPoller ==
    /\ fastPhase = "sleeping"
    /\ clock < MaxTime
    /\ clock' = clock + 1
    /\ fastPhase' = "ready"
    /\ lastCycle' = NoCycle
    /\ UNCHANGED <<active, history, quarantine_zone, QUARANTINE_PERIOD, live_data_cache,
                   match_states, alerts, checkedAt, archiverVars, slowVars, electionVars,
                   lifeVars, parserVars, notifierVars>>

InitPoller ==
    /\ lease = NoLease
    /\ pc = [r \in Replicas |-> "acquire"]
    /\ sleepLeft = [r \in Replicas |-> 0]
    /\ running = [r \in Replicas |-> FALSE]
    /\ InitService
    /\ QUARANTINE_PERIOD \in {0, MaxGrace}

NextPoller ==
    \/ FastCycleFailed
    \/ FastCycleOk
    \/ TickPoller

SpecPoller == InitPoller /\ [][NextPoller]_vars

\* ------------------------------------------------------ the query endpoints
\* The process whose endpoints are queried.
Self == 1

Unavailable == [status |-> 503, body |-> EmptyMap]

NotFound == [status |-> 404, body |-> EmptyMap]

\* A read by id that answers 503 as long as no snapshot was built.
GetMatchDataChecksSnapshot(is_running, cache, match_id) ==
    IF ~is_running \/ cache.last_updated = None THEN Unavailable
    ELSE IF match_id \notin DOMAIN cache.data THEN NotFound
    ELSE [status |-> 200, body |-> [id \in {match_id} |-> cache.data[match_id]]]

\* A read by id that answers 503 for an id the snapshot does not hold.
GetMatchDataUnknownUnavailable(is_running, cache, match_id) ==
    IF ~is_running \/ match_id \notin DOMAIN cache.data THEN Unavailable
    ELSE [status |-> 200, body |-> [id \in {match_id} |-> cache.data[match_id]]]

\* GET /all_live_itf_data: 503 when the service is not running, 503 when
\* last_updated is None or the snapshot is empty, else the records of the
\* snapshot with their number, the time of the rebuild and its age.
GetAllLiveItfData(is_running, cache) ==
    IF ~is_running THEN Unavailable
    ELSE IF cache.last_updated = None \/ DOMAIN cache.data = {} THEN Unavailable
    ELSE [status |-> 200,
          body |-> [cache_last_updated_utc |-> cache.last_updated,
                    cache_age_seconds |-> clock - cache.last_updated,
                    match_count |-> Cardinality(DOMAIN cache.data),
                    matches |-> cache.data]]

\* GET /match/{match_id}: 503 when the service is not running, 404 when the
\* snapshot has no record of the id, else the record.
GetMatchData(is_running, cache, match_id) ==
    IF ~is_running THEN Unavailable
    ELSE IF match_id \notin DOMAIN cache.data THEN NotFound
    ELSE [status |-> 200, body |-> [id \in {match_id} |-> cache.data[match_id]]]

\* _run_as_leader of the process that won the lease: service.start().  With
\* ok the two polling tasks exist from here on and the fast lane is at the
\* head of its loop.
QueryServiceStart ==
    /\ pc[Self] = "start"
    /\ \E ok \in BOOLEAN : running' = [running EXCEPT ![Self] = ok]
    /\ pc' = [pc EXCEPT ![Self] = "refresh_sleep"]
    /\ UNCHANGED <<lease, sleepLeft, pollerVars>>

\* The renewal loop ends and _demote_to_follower calls service.stop(): the
\* polling tasks are cancelled and reset to None; live_data_cache is kept.
QueryServiceStop ==
    /\ pc[Self] = "refresh_sleep"
    /\ running' = [running EXCEPT ![Self] = FALSE]
    /\ pc' = [pc EXCEPT ![Self] = "demote_get"]
    /\ UNCHANGED <<lease, sleepLeft, pollerVars>>

\* The fast lane of the running service: a cycle whose fetch failed.
QueryFastCycleFailed == running[Self] /\ FastCycleFailed

\* The fast lane of the running service: a cycle whose fetch succeeded,
\* with every match at the same score.
QueryFastCycleOk ==
    /\ running[Self]
    /\ \E live \in SUBSET Ids :
          FastCycle(TRUE, [id \in live |-> [sets |-> <<6, 4>>, game |-> "15-0"]])

\* The sleep of the fast lane of the running service.
QueryTick == running[Self] /\ TickPoller

\* The process has won the lease and is about to start its service.
InitQuery ==
    /\ lease = [holder |-> Self, ttl |-> LeaseTtlTicks]
    /\ pc = [r \in Replicas |-> IF r = Self THEN "start" ELSE "follower_sleep"]
    /\ sleepLeft = [r \in Replicas |-> 0]
    /\ running = [r \in Replicas |-> FALSE]
    /\ InitService
    /\ QUARANTINE_PERIOD = MaxGrace

NextQuery ==
    \/ QueryServiceStart
    \/ QueryServiceStop
    \/ QueryFastCycleFailed
    \/ QueryFastCycleOk
    \/ QueryTick

SpecQuery == InitQuery /\ [][NextQuery]_vars

\* ------------------------------------------------- the slow lane and its pool
\* What the fast lane and the archiver own, the active store apart.
fastVars == <<clock, history, quarantine_zone, QUARANTINE_PERIOD, live_data_cache,
              match_states, alerts, checkedAt, lastCycle, fastPhase>>

\* A finally block that puts nothing back.
PutBackNever(pool, w) == pool

\* finally: if worker and self.detail_scraper_pool: put_nowait(worker)
PutBack(pool, w) ==
    IF w # None /\ pool.ready THEN [pool EXCEPT !.queue = @ \cup {w}] ELSE pool

\* The enrichment tasks that were created and have not returned.
TasksInProgress == {id \in DOMAIN taskPc : taskPc[id] \notin {"none", "done"}}

\* start(): the slow task is created; it sleeps 15 s and enters its loop.
SlowLaneStart ==
    /\ slowPhase = "stopped"
    /\ slowPhase' = "ensure"
    /\ UNCHANGED <<detail_scraper_pool, all_workers, created_workers, openWorkers, taskPc,
                   worker, current_match, active, fastVars, archiverVars, electionVars,
                   lifeVars, parserVars, notifierVars>>

\* _ensure_detail_worker_pool: returns at once when the pool exists, else
\* starts the construction with created_workers = [].
EnsurePool ==
    /\ slowPhase = "ensure"
    /\ slowPhase' = IF detail_scraper_pool.ready THEN "identify" ELSE "building"
    /\ created_workers' = {}
    /\ UNCHANGED <<detail_scraper_pool, all_workers, openWorkers, taskPc, worker,
                   current_match, active, fastVars, archiverVars, electionVars,
                   lifeVars, parserVars, notifierVars>>

\* One pass of the construction loop in which start_driver succeeds.  After
\* the last worker, all_workers and detail_scraper_pool are assigned.
BuildWorker ==
    /\ slowPhase = "building"
    /\ LET w == Cardinality(created_workers) + 1
           created == created_workers \cup {w}
       IN /\ openWorkers' = openWorkers \cup {w}
          /\ created_workers' = created
          /\ IF created = Workers
             THEN /\ all_workers' = created
                  /\ detail_scraper_pool' = [ready |-> TRUE, queue |-> created]
                  /\ slowPhase' = "identify"
             ELSE UNCHANGED <<all_workers, detail_scraper_pool, slowPhase>>
    /\ UNCHANGED <<taskPc, worker, current_match, active, fastVars, archiverVars,
                   electionVars, lifeVars, parserVars, notifierVars>>

\* An except branch that closes nothing.
ClosedNothing(created) == {}

\* The workers closed by the except branch of the construction.
ClosedOnBuildFailure(created) == created

\* One pass of the construction loop in which TenipoScraper() or
\* start_driver raises: the except branch closes the workers created so far
\* and empties all_workers; detail_scraper_pool was never assigned.
BuildFails ==
    /\ slowPhase = "building"
    /\ openWorkers' = openWorkers \ ClosedOnBuildFailure(created_workers)
    /\ all_workers' = {}
    /\ slowPhase' = "identify"
    /\ UNCHANGED <<detail_scraper_pool, created_workers, taskPc, worker, current_match,
                   active, fastVars, archiverVars, electionVars, lifeVars, parserVars,
                   notifierVars>>

\* get_matches_needing_enrichment and the creation of one enrichment task
\* per id for asyncio.gather; with no id the cycle goes to its sleep.
SpawnTasks ==
    /\ slowPhase = "identify"
    /\ \E matches \in SUBSET (DOMAIN active) :
          /\ taskPc' = [id \in DOMAIN taskPc |->
                            IF id \in matches THEN "start" ELSE "none"]
          /\ slowPhase' = IF matches = {} THEN "sleeping" ELSE "gather"
    /\ UNCHANGED <<detail_scraper_pool, all_workers, created_workers, openWorkers, worker,
                   current_match, active, fastVars, archiverVars, electionVars,
                   lifeVars, parserVars, notifierVars>>

\* _enrich_single_match_with_details: if not self.detail_scraper_pool: return
TaskStart(id) ==
    /\ taskPc[id] = "start"
    /\ taskPc' = [taskPc EXCEPT ![id] = IF detail_scraper_pool.ready THEN "get" ELSE "done"]
    /\ UNCHANGED <<slowPhase, detail_scraper_pool, all_workers, created_workers, openWorkers,
                   worker, current_match, active, fastVars, archiverVars, electionVars,
                   lifeVars, parserVars, notifierVars>>

\* A get() that hands out a worker whether it is in the queue or not.
QueueGetNoWait(pool) == Workers

\* asyncio.Queue.get: the workers it can return; it waits while there is
\* none.
QueueGet(pool) == pool.queue

\* worker = await self.detail_scraper_pool.get(): waits while the queue is
\* empty.
TaskGet(id) ==
    /\ taskPc[id] = "get"
    /\ \E w \in QueueGet(detail_scraper_pool) :
          /\ detail_scraper_pool' = [detail_scraper_pool EXCEPT !.queue = @ \ {w}]
          /\ worker' = [worker EXCEPT ![id] = w]
    /\ taskPc' = [taskPc EXCEPT ![id] = "find"]
    /\ UNCHANGED <<slowPhase, all_workers, created_workers, openWorkers, current_match,
                   active, fastVars, archiverVars, electionVars, lifeVars, parserVars,
                   notifierVars>>

\* The end of an enrichment task through its finally block.
TaskReturns(id) ==
    /\ detail_scraper_pool' = PutBack(detail_scraper_pool, worker[id])
    /\ worker' = [worker EXCEPT ![id] = None]
    /\ current_match' = [i \in (DOMAIN current_match) \ {id} |-> current_match[i]]
    /\ taskPc' = [taskPc EXCEPT ![id] = "done"]

\* find_one({"_id": match_id}): the task returns when there is no document.
TaskFind(id) ==
    /\ taskPc[id] = "find"
    /\ IF id \in DOMAIN active
       THEN /\ current_match' = [i \in (DOMAIN current_match) \cup {id} |->
                                    IF i = id THEN active[id] ELSE current_match[i]]
            /\ taskPc' = [taskPc EXCEPT ![id] = "fetch"]
            /\ UNCHANGED <<detail_scraper_pool, worker>>
       ELSE TaskReturns(id)
    /\ UNCHANGED <<slowPhase, all_workers, created_workers, openWorkers, active, fastVars,
                   archiverVars, electionVars, lifeVars, parserVars, notifierVars>>

\* worker.fetch_match_data(match_id) returned detailed data.
TaskFetch(id) ==
    /\ taskPc[id] = "fetch"
    /\ taskPc' = [taskPc EXCEPT ![id] = "save"]
    /\ UNCHANGED <<slowPhase, detail_scraper_pool, all_workers, created_workers, openWorkers,
                   worker, current_match, active, fastVars, archiverVars, electionVars,
                   lifeVars, parserVars, notifierVars>>

\* worker.fetch_match_data returned nothing, or find_one, the fetch or the
\* merge raised: nothing is saved and the task ends.
TaskFails(id) ==
    /\ taskPc[id] \in {"find", "fetch", "save"}
    /\ TaskReturns(id)
    /\ UNCHANGED <<slowPhase, all_workers, created_workers, openWorkers, active, fastVars,
                   archiverVars, electionVars, lifeVars, parserVars, notifierVars>>

\* save_match_data(match_id, enhanced_data): update_one with $set of the
\* copy of current_match and upsert=True, then the end of the task.
TaskSave(id) ==
    /\ taskPc[id] = "save"
    /\ active' = [i \in (DOMAIN active) \cup {id} |->
                    IF i = id THEN current_match[id] ELSE active[i]]
    /\ TaskReturns(id)
    /\ UNCHANGED <<slowPhase, all_workers, created_workers, openWorkers, fastVars,
                   archiverVars, electionVars, lifeVars, parserVars, notifierVars>>

\* asyncio.gather returns when every task has ended; the cycle goes to its
\* sleep.
GatherDone ==
    /\ slowPhase = "gather"
    /\ TasksInProgress = {}
    /\ taskPc' = [id \in DOMAIN taskPc |-> "none"]
    /\ slowPhase' = "sleeping"
    /\ UNCHANGED <<detail_scraper_pool, all_workers, created_workers, openWorkers, worker,
                   current_match, active, fastVars, archiverVars, electionVars,
                   lifeVars, parserVars, notifierVars>>

\* await asyncio.sleep(self.SLOW_POLL_INTERVAL) returns: the next cycle.
SlowWake ==
    /\ slowPhase = "sleeping"
    /\ slowPhase' = "ensure"
    /\ UNCHANGED <<detail_scraper_pool, all_workers, created_workers, openWorkers, taskPc,
                   worker, current_match, active, fastVars, archiverVars, electionVars,
                   lifeVars, parserVars, notifierVars>>

\* A document leaves "tenipo" while the slow lane runs (delete_many of the
\* archiver).
StoreLoses(id) ==
    /\ slowPhase \notin {"stopped", "stopping"}
    /\ id \in DOMAIN active
    /\ active' = DeleteMany(active, {id})
    /\ UNCHANGED <<slowVars, fastVars, archiverVars, electionVars, lifeVars,
                   parserVars, notifierVars>>

\* The queue after every enrichment task in progress was cancelled and ran
\* its finally block.
RECURSIVE PutBackAll(_, _)
PutBackAll(pool, ids) ==
    IF ids = {} THEN pool
    ELSE LET id == CHOOSE i \in ids : TRUE
         IN PutBackAll(PutBack(pool, worker[id]), ids \ {id})

\* stop(): the slow task is cancelled and awaited.  The cancellation reaches
\* the enrichment tasks through gather; each runs its finally block.  A
\* construction in progress is abandoned: CancelledError is not an
\* Exception, so its except branch does not run.
StopCancel ==
    /\ slowPhase \notin {"stopped", "stopping"}
    /\ detail_scraper_pool' = PutBackAll(detail_scraper_pool, TasksInProgress)
    /\ worker' = [id \in DOMAIN worker |-> None]
    /\ current_match' = EmptyMap
    /\ taskPc' = [id \in DOMAIN taskPc |-> "none"]
    /\ slowPhase' = "stopping"
    /\ UNCHANGED <<all_workers, created_workers, openWorkers, active, fastVars,
                   archiverVars, electionVars, lifeVars, parserVars, notifierVars>>

\* stop(): every scraper of all_workers is closed, then detail_scraper_pool
\* = None and all_workers = [].
StopClose ==
    /\ slowPhase = "stopping"
    /\ openWorkers' = openWorkers \ all_workers
    /\ detail_scraper_pool' = NoPool
    /\ all_workers' = {}
    /\ created_workers' = {}
    /\ slowPhase' = "stopped"
    /\ UNCHANGED <<taskPc, worker, current_match, active, fastVars, archiverVars,
                   electionVars, lifeVars, parserVars, notifierVars>>

\* The slow lane of a service whose store holds some documents.
InitSlow ==
    /\ lease = NoLease
    /\ pc = [r \in Replicas |-> "acquire"]
    /\ sleepLeft = [r \in Replicas |-> 0]
    /\ running = [r \in Replicas |-> FALSE]
    /\ clock = 0
    /\ \E S \in SUBSET Ids : active = [id \in S |-> TransformSummary(CHOOSE sm \in SummaryScores : sm.game = "15-0", 0)]
    /\ history = {}
    /\ quarantine_zone = EmptyMap
    /\ QUARANTINE_PERIOD = MaxGrace
    /\ live_data_cache = [data |-> EmptyMap, last_updated |-> None]
    /\ match_states = EmptyMap
    /\ alerts = EmptyMap
    /\ checkedAt = EmptyMap
    /\ lastCycle = NoCycle
    /\ fastPhase = "ready"
    /\ lastArchive = NoArchive
    /\ removed = [arch |-> {}, sweep |-> {}]
    /\ historyCopies = EmptyMap
    /\ InitSlowLane
    /\ InitLifecycle
    /\ InitNotifier
    /\ InitNoParse

NextSlow ==
    \/ SlowLaneStart
    \/ EnsurePool
    \/ BuildWorker
    \/ BuildFails
    \/ SpawnTasks
    \/ \E id \in Ids : TaskStart(id)
    \/ \E id \in Ids : TaskGet(id)
    \/ \E id \in Ids : TaskFind(id)
    \/ \E id \in Ids : TaskFetch(id)
    \/ \E id \in Ids : TaskFails(id)
    \/ \E id \in Ids : TaskSave(id)
    \/ GatherDone
    \/ SlowWake
    \/ \E id \in Ids : StoreLoses(id)
    \/ StopCancel
    \/ StopClose

SpecSlow == InitSlow /\ [][NextSlow]_vars

\* The steps of the slow task and of its enrichment tasks.
SlowLaneStep ==
    \/ EnsurePool
    \/ BuildWorker
    \/ BuildFails
    \/ SpawnTasks
    \/ \E id \in Ids : TaskStart(id) \/ TaskGet(id) \/ TaskFind(id) \/ TaskFetch(id)
                         \/ TaskFails(id) \/ TaskSave(id)
    \/ GatherDone
    \/ SlowWake

\* The event loop runs the slow task and its enrichment tasks whenever they
\* can go on.
FairSpecSlow == SpecSlow /\ WF_vars(SlowLaneStep)

\* ------------------------------------------ more matches than pool workers
\* The ids of the matches that need details in one slow cycle: one more than
\* the pool has workers, so that a task asks for a worker when none is free.
EnrichIds == 1..(PoolSize + 1)

\* The slow lane of a service whose store holds a summary document for each
\* of these ids.
InitPool ==
    /\ lease = NoLease
    /\ pc = [r \in Replicas |-> "acquire"]
    /\ sleepLeft = [r \in Replicas |-> 0]
    /\ running = [r \in Replicas |-> FALSE]
    /\ clock = 0
    /\ active = [id \in EnrichIds |->
                    TransformSummary(CHOOSE sm \in SummaryScores : sm.game = "15-0", 0)]
    /\ history = {}
    /\ quarantine_zone = EmptyMap
    /\ QUARANTINE_PERIOD = MaxGrace
    /\ live_data_cache = [data |-> EmptyMap, last_updated |-> None]
    /\ match_states = EmptyMap
    /\ alerts = EmptyMap
    /\ checkedAt = EmptyMap
    /\ lastCycle = NoCycle
    /\ fastPhase = "ready"
    /\ lastArchive = NoArchive
    /\ removed = [arch |-> {}, sweep |-> {}]
    /\ historyCopies = EmptyMap
    /\ slowPhase = "stopped"
    /\ detail_scraper_pool = NoPool
    /\ all_workers = {}
    /\ created_workers = {}
    /\ openWorkers = {}
    /\ taskPc = [id \in EnrichIds |-> "none"]
    /\ worker = [id \in EnrichIds |-> None]
    /\ current_match = EmptyMap
    /\ InitLifecycle
    /\ InitNotifier
    /\ InitNoParse

NextPool ==
    \/ SlowLaneStart
    \/ EnsurePool
    \/ BuildWorker
    \/ SpawnTasks
    \/ \E id \in EnrichIds : TaskStart(id)
    \/ \E id \in EnrichIds : TaskGet(id)
    \/ \E id \in EnrichIds : TaskFind(id)
    \/ \E id \in EnrichIds : TaskFetch(id)
    \/ \E id \in EnrichIds : TaskFails(id)
    \/ \E id \in EnrichIds : TaskSave(id)
    \/ GatherDone
    \/ SlowWake

SpecPool == InitPool /\ [][NextPool]_vars

\* ------------------------------------------- both lanes of a started service
\* start() creates the fast task and the slow task of one service; both run
\* on the same event loop and write to the same "tenipo" collection.  A fast
\* cycle runs between two awaits of an enrichment task.  The slow lane is
\* followed through its first cycle.
InitLanes ==
    /\ lease = NoLease
    /\ pc = [r \in Replicas |-> "acquire"]
    /\ sleepLeft = [r \in Replicas |-> 0]
    /\ running = [r \in Replicas |-> FALSE]
    /\ InitService
    /\ QUARANTINE_PERIOD = MaxGrace

NextLanes ==
    \/ FastCycleOk
    \/ TickPoller
    \/ SlowLaneStart
    \/ EnsurePool
    \/ BuildWorker
    \/ SpawnTasks
    \/ \E id \in Ids : TaskStart(id)
    \/ \E id \in Ids : TaskGet(id)
    \/ \E id \in Ids : TaskFind(id)
    \/ \E id \in Ids : TaskFetch(id)
    \/ \E id \in Ids : TaskFails(id)
    \/ \E id \in Ids : TaskSave(id)
    \/ GatherDone

SpecLanes == InitLanes /\ [][NextLanes]_vars

\* The two lanes cycle by cycle.  A cycle of the fast lane whose fetch
\* succeeded, with every match at the same score.
CyclesFastCycleOk ==
    \E live \in SUBSET Ids :
        FastCycle(TRUE, [id \in live |-> [sets |-> <<6, 4>>, game |-> "15-0"]])

\* One pass of the loop of _leisurely_detailed_enrichment, from
\* _ensure_detail_worker_pool to the sleep: the pool is built when there is
\* none (or the construction fails and closes what it opened), the matches
\* that need details are enriched and every worker is back in the queue.
\* save_match_data writes back the document that find_one read in the same
\* pass.  Nothing else is called.
SlowCycle ==
    /\ slowPhase = "ensure"
    /\ slowPhase' = "sleeping"
    /\ IF detail_scraper_pool.ready
       THEN UNCHANGED <<detail_scraper_pool, all_workers, openWorkers>>
       ELSE \E built \in BOOLEAN :
               IF built
               THEN /\ all_workers' = Workers
                    /\ openWorkers' = openWorkers \cup Workers
                    /\ detail_scraper_pool' = [ready |-> TRUE, queue |-> Workers]
               ELSE /\ all_workers' = {}
                    /\ UNCHANGED <<detail_scraper_pool, openWorkers>>
    /\ UNCHANGED <<created_workers, taskPc, worker, current_match, active, fastVars,
                   archiverVars, electionVars, lifeVars, parserVars, notifierVars>>

NextCycles ==
    \/ CyclesFastCycleOk
    \/ TickPoller
    \/ SlowLaneStart
    \/ SlowCycle
    \/ SlowWake

SpecCycles == InitLanes /\ [][NextCycles]_vars

\* ------------------------------------------ exceptions inside the cycles
\* A lane whose loop was left by an exception.
AfterExceptEndsLane == "ended"

\* The except branch of a polling loop logs the error; the loop goes on to
\* its await asyncio.sleep.
AfterExcept == "sleeping"

\* A fast cycle in which a call raises an Exception that the callee does
\* not handle.  "fetch": run_in_executor of get_live_matches_summary or
\* transform_summary_only_to_client_format raises before any write.
\* "reconcile": get_all_active_match_ids raises an error that is not an
\* OperationFailure, after the upserts and after the reappeared ids were
\* released.  "rebuild": get_all_active_matches raises in
\* _rebuild_fast_cache, after a reconciliation that had nothing to archive.
FastCycleRaises(at, summary) ==
    LET now == clock
        live == DOMAIN summary
        upserted == UpsertFastData(active, summary, now)
        q == HandleQuarantine(quarantine_zone, upserted, live, now, QUARANTINE_PERIOD)
    IN
    /\ fastPhase = "ready"
    /\ fastPhase' = AfterExcept
    /\ lastCycle' = [NoCycle EXCEPT !.raised = TRUE]
    /\ CASE at = "fetch" -> UNCHANGED <<active, quarantine_zone>>
         [] at = "reconcile" ->
                /\ active' = upserted
                /\ quarantine_zone' = [id \in (DOMAIN quarantine_zone) \ live |->
                                            quarantine_zone[id]]
         [] at = "rebuild" ->
                /\ q.batch = {}
                /\ active' = upserted
                /\ quarantine_zone' = q.zone
    /\ UNCHANGED <<clock, history, QUARANTINE_PERIOD, live_data_cache, match_states,
                   alerts, checkedAt, archiverVars, slowVars, electionVars, lifeVars,
                   parserVars, notifierVars>>

\* The feeds of these cycles: every entity is listed at the same score, or
\* none is.
SurviveSummaries == {[id \in live |-> [sets |-> <<6, 4>>, game |-> "15-0"]] : live \in {{}, Ids}}

SurviveFastCycleRaises ==
    \E at \in {"fetch", "reconcile", "rebuild"} : \E summary \in SurviveSummaries :
        FastCycleRaises(at, summary)

\* A cycle whose fetch succeeded; it raises in the archiver when an id is
\* due.
SurviveFastCycleOk == \E summary \in SurviveSummaries : FastCycle(TRUE, summary)

\* A service whose grace period is zero: an id is due one interval after
\* it was quarantined.
InitSurvive ==
    /\ InitPoller
    /\ QUARANTINE_PERIOD = 0

\* A pass of the slow loop in which get_matches_needing_enrichment raises
\* an error that is not an OperationFailure: _ensure_detail_worker_pool has
\* run, no enrichment task was created, the except branch is entered.
SlowCycleRaises ==
    /\ slowPhase = "ensure"
    /\ slowPhase' = "caught"
    /\ IF detail_scraper_pool.ready
       THEN UNCHANGED <<detail_scraper_pool, all_workers, openWorkers>>
       ELSE \E built \in BOOLEAN :
               IF built
               THEN /\ all_workers' = Workers
                    /\ openWorkers' = openWorkers \cup Workers
                    /\ detail_scraper_pool' = [ready |-> TRUE, queue |-> Workers]
               ELSE /\ all_workers' = {}
                    /\ UNCHANGED <<detail_scraper_pool, openWorkers>>
    /\ UNCHANGED <<created_workers, taskPc, worker, current_match, active, fastVars,
                   archiverVars, electionVars, lifeVars, parserVars, notifierVars>>

\* except Exception as e: logging.error(...) in the slow loop.
SlowCaught ==
    /\ slowPhase = "caught"
    /\ slowPhase' = AfterExcept
    /\ UNCHANGED <<detail_scraper_pool, all_workers, created_workers, openWorkers, taskPc,
                   worker, current_match, active, fastVars, archiverVars, electionVars,
                   lifeVars, parserVars, notifierVars>>

\* The steps of the fast task.
SurviveFastStep ==
    \/ SurviveFastCycleOk
    \/ FastCycleFailed
    \/ SurviveFastCycleRaises
    \/ TickPoller

\* The steps of the slow task.
SurviveSlowStep ==
    \/ SlowLaneStart
    \/ SlowCycle
    \/ SlowCycleRaises
    \/ SlowCaught
    \/ SlowWake

NextSurvive == SurviveFastStep \/ SurviveSlowStep

SpecSurvive == InitSurvive /\ [][NextSurvive]_vars

\* The event loop runs each of the two tasks whenever it can go on.
FairSpecSurvive == SpecSurvive /\ WF_vars(SurviveFastStep) /\ WF_vars(SurviveSlowStep)

\* ------------------------------------ the documents with all their fields
\* One document of "tenipo" with the fields of the fast projection and of
\* the enrichment, written by upsert_fast_data and by save_match_data.
UpsertIds == {1}

\* The summaries of the feed for one entity: a score and a tournament name.
FullSummaries ==
    [live_score_data : SummaryScores, tournament_name : {"Open", "Cup"}]

\* The detail pages: with or without a round and a court name.
DetailPages == {[round |-> "None", court_name |-> "None"],
                [round |-> "R16", court_name |-> "Centre"]}

\* data_mapper.transform_summary_only_to_client_format: every field of the
\* fast projection (the _id is the key of the store).
TransformSummaryFull(sm, now) ==
    [ match_url |-> "url",
      tournament |-> sm.tournament_name,
      round |-> "None",
      timePolled |-> now,
      players |-> <<"p1", "p2">>,
      score |-> TransformSummary(sm.live_score_data, now).score,
      matchInfo |-> [court |-> "None", started |-> "None"],
      statistics |-> << >>,
      pointByPoint |-> << >>,
      h2h |-> << >>,
      hasDetailedData |-> FALSE,
      detailedDataUpdated |-> None ]

\* The keys of set_fields.
SetFields == {"timePolled", "score", "tournament", "players"}

\* An upsert that writes every field of fast_data with $set.
UpdateOneSetsAll(act, id, set, setOnInsert) ==
    [i \in (DOMAIN act) \cup {id} |->
        IF i # id THEN act[i]
        ELSE [k \in (DOMAIN set) \cup (DOMAIN setOnInsert) |->
                IF k \in DOMAIN set THEN set[k] ELSE setOnInsert[k]]]

\* update_one({"_id": id}, {"$set": set, "$setOnInsert": setOnInsert},
\* upsert=True): on a document that exists the fields of set are written and
\* the others are kept; with no document one is inserted with the fields of
\* both.
UpdateOne(act, id, set, setOnInsert) ==
    [i \in (DOMAIN act) \cup {id} |->
        IF i # id THEN act[i]
        ELSE IF id \in DOMAIN act
             THEN [k \in (DOMAIN act[id]) \cup (DOMAIN set) |->
                     IF k \in DOMAIN set THEN set[k] ELSE act[id][k]]
             ELSE [k \in (DOMAIN set) \cup (DOMAIN setOnInsert) |->
                     IF k \in DOMAIN set THEN set[k] ELSE setOnInsert[k]]]

\* MongoManager.upsert_fast_data: set_fields are the four live fields,
\* set_on_insert_fields the rest of fast_data.
UpsertFastDataFull(act, id, fast_data) ==
    UpdateOne(act, id,
              [k \in SetFields |-> fast_data[k]],
              [k \in (DOMAIN fast_data) \ SetFields |-> fast_data[k]])

\* _merge_detailed_with_fast_data: the copy of the document that was read,
\* with the detailed fields, hasDetailedData and detailedDataUpdated.
MergeDetailedWithFastData(doc, page, now) ==
    [doc EXCEPT !.statistics = <<"stats">>,
                !.pointByPoint = <<"points">>,
                !.h2h = <<"meeting">>,
                !.matchInfo = IF page.court_name # "None"
                              THEN [@ EXCEPT !.court = page.court_name] ELSE @,
                !.round = IF page.round # "None" THEN page.round ELSE @,
                !.hasDetailedData = TRUE,
                !.detailedDataUpdated = now]

\* One pass of the loop over the summary in a fast cycle: the record of id
\* is transformed and upserted.
FullUpsert(id, sm) ==
    /\ active' = UpsertFastDataFull(active, id, TransformSummaryFull(sm, clock))
    /\ UNCHANGED <<clock, history, quarantine_zone, QUARANTINE_PERIOD, live_data_cache,
                   match_states, alerts, checkedAt, lastCycle, fastPhase, archiverVars,
                   slowVars, electionVars, lifeVars, parserVars, notifierVars>>

\* An enrichment task reads the document of id with find_one.
FullEnrichRead(id) ==
    /\ id \in DOMAIN active
    /\ id \notin DOMAIN current_match
    /\ current_match' = [i \in (DOMAIN current_match) \cup {id} |->
                            IF i = id THEN active[id] ELSE current_match[i]]
    /\ UNCHANGED <<slowPhase, detail_scraper_pool, all_workers, created_workers,
                   openWorkers, taskPc, worker, active, fastVars, archiverVars,
                   electionVars, lifeVars, parserVars, notifierVars>>

\* The task merges the detail page into its copy and writes it with
\* save_match_data ($set of every field of the copy, upsert=True).
FullEnrichSave(id, page) ==
    /\ id \in DOMAIN current_match
    /\ LET enhanced == MergeDetailedWithFastData(current_match[id], page, clock)
       IN active' = UpdateOne(active, id, enhanced, enhanced)
    /\ current_match' = [i \in (DOMAIN current_match) \ {id} |-> current_match[i]]
    /\ UNCHANGED <<slowPhase, detail_scraper_pool, all_workers, created_workers,
                   openWorkers, taskPc, worker, fastVars, archiverVars, electionVars,
                   lifeVars, parserVars, notifierVars>>

\* Time passes.
FullTick ==
    /\ clock < MaxTime
    /\ clock' = clock + 1
    /\ UNCHANGED <<active, history, quarantine_zone, QUARANTINE_PERIOD, live_data_cache,
                   match_states, alerts, checkedAt, lastCycle, fastPhase, archiverVars,
                   slowVars, electionVars, lifeVars, parserVars, notifierVars>>

NextUpsert ==
    \/ \E id \in UpsertIds : \E sm \in FullSummaries : FullUpsert(id, sm)
    \/ \E id \in UpsertIds : FullEnrichRead(id)
    \/ \E id \in UpsertIds : \E page \in DetailPages : FullEnrichSave(id, page)
    \/ FullTick

SpecUpsert == InitLanes /\ [][NextUpsert]_vars

\* ------------------------------------------------ the summary fetch
\* What a fetch of the live page gives: "feed", the intercepted XML was
\* obtained and lists the entities of live; "nodata", no XML body was
\* intercepted within max_wait_time (or the script that collects the bodies
\* failed with a WebDriverException); "error", driver.get or the parsing
\* raised.
SourceOutcomes ==
    {[kind |-> "feed", live |-> live] : live \in SUBSET Ids}
        \cup {[kind |-> "nodata", live |-> {}], [kind |-> "error", live |-> {}]}

\* TenipoScraper.get_live_matches_summary of a started driver: (False, [])
\* from the except branch, (True, []) when _wait_for_xml_data_intelligently
\* returned no body, else (True, the records of the listed entities).
GetLiveMatchesSummary(outcome) ==
    CASE outcome.kind = "error" -> [ok |-> FALSE, summary |-> EmptyMap]
      [] outcome.kind = "nodata" -> [ok |-> TRUE, summary |-> EmptyMap]
      [] outcome.kind = "feed" ->
            [ok |-> TRUE,
             summary |-> [id \in outcome.live |-> [sets |-> <<6, 4>>, game |-> "15-0"]]]

\* One fast cycle on what the fetch returned for this outcome.
SourceCycle(outcome) ==
    LET r == GetLiveMatchesSummary(outcome) IN FastCycle(r.ok, r.summary)

NextSource ==
    \/ \E outcome \in SourceOutcomes : SourceCycle(outcome)
    \/ TickPoller

SpecSource == InitLanes /\ [][NextSource]_vars

\* ------------------------------------- start() and stop() of one process
\* The election loop of one process calls service.start() and
\* service.stop() in turn: _run_as_leader awaits start(), then the refresh
\* task, and its finally block awaits _demote_to_follower, which awaits
\* stop().  The lanes are followed cycle by cycle.
MainScraper == 0

slowTaskVars == <<slowPhase, created_workers, taskPc, worker, current_match>>

\* The tasks of a lane that were created and have not ended.
LiveTasks(l) == {g \in Gens : laneTask[l][g] \in {"sleeping", "cycle"}}

\* The tasks of a lane that stand inside a cycle.
InCycle(l) == {g \in Gens : laneTask[l][g] = "cycle"}

\* A stop() that drops a task without cancelling and awaiting it.
CancelAndAwaitLeavesTask(st) == st

\* task.cancel(); await task: CancelledError is raised at the await the
\* task stands at, no handler of the lane catches it, the task ends and the
\* await in stop() returns after that.
CancelAndAwait(st) == IF st \in {"sleeping", "cycle"} THEN "ended" ELSE st

\* self.all_workers + ([self.main_scraper] if self.main_scraper else []):
\* the workers in the order of their creation, then the main scraper.
RECURSIVE WorkersInOrder(_)
WorkersInOrder(ws) ==
    IF ws = {} THEN << >>
    ELSE LET w == CHOOSE x \in ws : \A y \in ws : x <= y
         IN <<w>> \o WorkersInOrder(ws \ {w})

AllScrapers ==
    WorkersInOrder(all_workers) \o (IF main_scraper # None THEN <<MainScraper>> ELSE << >>)

\* start(): the main scraper is created and its driver started; when that
\* raises, start() returns.  Then the MongoManager is created; the two
\* tasks are created when its client is connected.
ServiceStart ==
    /\ svcPc = "start"
    /\ starts < MaxStarts
    /\ starts' = starts + 1
    /\ svcPc' = "leading"
    /\ main_scraper' = starts + 1
    /\ \E driverOk \in BOOLEAN, clientOk \in BOOLEAN :
          IF ~driverOk
          THEN UNCHANGED <<fast_polling_task, slow_polling_task, laneTask, mongo_manager,
                           openScrapers, openClients>>
          ELSE /\ openScrapers' = openScrapers \cup {starts + 1}
               /\ mongo_manager' = starts + 1
               /\ IF clientOk
                  THEN /\ openClients' = openClients \cup {starts + 1}
                       /\ fast_polling_task' = starts + 1
                       /\ slow_polling_task' = starts + 1
                       /\ laneTask' = [l \in Lanes |->
                                         [laneTask[l] EXCEPT ![starts + 1] = "sleeping"]]
                  ELSE UNCHANGED <<openClients, fast_polling_task, slow_polling_task,
                                   laneTask>>
    /\ UNCHANGED <<all_scrapers, lastStop, active, fastVars, archiverVars, slowVars,
                   electionVars, parserVars, notifierVars>>

\* A task of the fast lane leaves its sleep and starts a cycle.
FastCycleBegins(g) ==
    /\ laneTask["fast"][g] = "sleeping"
    /\ laneTask' = [laneTask EXCEPT !["fast"][g] = "cycle"]
    /\ UNCHANGED <<svcPc, starts, fast_polling_task, slow_polling_task, main_scraper,
                   mongo_manager, openScrapers, openClients, all_scrapers, lastStop,
                   active, fastVars, archiverVars, slowVars, electionVars, parserVars,
                   notifierVars>>

\* A task of the slow lane leaves its sleep and starts a cycle, which
\* begins with _ensure_detail_worker_pool: nothing when the pool exists,
\* else the pool is built, or the construction fails and closes what it
\* opened.
SlowCycleBegins(g) ==
    /\ laneTask["slow"][g] = "sleeping"
    /\ laneTask' = [laneTask EXCEPT !["slow"][g] = "cycle"]
    /\ IF detail_scraper_pool.ready
       THEN UNCHANGED <<detail_scraper_pool, all_workers, openWorkers>>
       ELSE \E built \in BOOLEAN :
               IF built
               THEN /\ all_workers' = Workers
                    /\ openWorkers' = openWorkers \cup Workers
                    /\ detail_scraper_pool' = [ready |-> TRUE, queue |-> Workers]
               ELSE /\ all_workers' = {}
                    /\ UNCHANGED <<detail_scraper_pool, openWorkers>>
    /\ UNCHANGED <<svcPc, starts, fast_polling_task, slow_polling_task, main_scraper,
                   mongo_manager, openScrapers, openClients, all_scrapers, lastStop,
                   active, fastVars, archiverVars, slowTaskVars, electionVars,
                   parserVars, notifierVars>>

\* A cycle of a lane reaches its sleep.
CycleEnds(l, g) ==
    /\ laneTask[l][g] = "cycle"
    /\ laneTask' = [laneTask EXCEPT ![l][g] = "sleeping"]
    /\ UNCHANGED <<svcPc, starts, fast_polling_task, slow_polling_task, main_scraper,
                   mongo_manager, openScrapers, openClients, all_scrapers, lastStop,
                   active, fastVars, archiverVars, slowVars, electionVars, parserVars,
                   notifierVars>>

\* stop(), first pass of its loop over the two tasks: the fast task is
\* cancelled and awaited.
StopFastTask ==
    /\ svcPc = "leading"
    /\ svcPc' = "stop_slow"
    /\ laneTask' = IF fast_polling_task = None THEN laneTask
                   ELSE [laneTask EXCEPT !["fast"][fast_polling_task] = CancelAndAwait(@)]
    /\ UNCHANGED <<starts, fast_polling_task, slow_polling_task, main_scraper,
                   mongo_manager, openScrapers, openClients, all_scrapers, lastStop,
                   active, fastVars, archiverVars, slowVars, electionVars, parserVars,
                   notifierVars>>

\* stop(), second pass: the slow task is cancelled and awaited; then both
\* attributes are reset and the list of the scrapers to close is built.
StopSlowTask ==
    /\ svcPc = "stop_slow"
    /\ svcPc' = "stop_scrapers"
    /\ laneTask' = IF slow_polling_task = None THEN laneTask
                   ELSE [laneTask EXCEPT !["slow"][slow_polling_task] = CancelAndAwait(@)]
    /\ fast_polling_task' = None
    /\ slow_polling_task' = None
    /\ all_scrapers' = AllScrapers
    /\ UNCHANGED <<starts, main_scraper, mongo_manager, openScrapers, openClients,
                   lastStop, active, fastVars, archiverVars, slowVars, electionVars,
                   parserVars, notifierVars>>

\* stop(): await loop.run_in_executor(None, scraper.close) for the next
\* scraper of the list.  driver.quit() can raise; nothing in stop() catches
\* it, so stop() ends there and the exception reaches the election loop,
\* which logs it and goes on to its next round.
StopCloseScraper ==
    /\ svcPc = "stop_scrapers"
    /\ all_scrapers # << >>
    /\ \E closed \in BOOLEAN :
          IF closed
          THEN /\ all_scrapers' = Tail(all_scrapers)
               /\ IF Head(all_scrapers) = MainScraper
                  THEN /\ openScrapers' = openScrapers \ {main_scraper}
                       /\ UNCHANGED openWorkers
                  ELSE /\ openWorkers' = openWorkers \ {Head(all_scrapers)}
                       /\ UNCHANGED openScrapers
               /\ UNCHANGED <<svcPc, lastStop>>
          ELSE /\ all_scrapers' = << >>
               /\ svcPc' = "start"
               /\ lastStop' = "raised"
               /\ UNCHANGED <<openScrapers, openWorkers>>
    /\ UNCHANGED <<starts, fast_polling_task, slow_polling_task, laneTask, main_scraper,
                   mongo_manager, openClients, detail_scraper_pool, all_workers, active,
                   fastVars, archiverVars, slowTaskVars, electionVars, parserVars, notifierVars>>

\* stop() after the last scraper: mongo_manager.close(), then main_scraper,
\* detail_scraper_pool and all_workers are reset and stop() returns.
StopCloseStore ==
    /\ svcPc = "stop_scrapers"
    /\ all_scrapers = << >>
    /\ openClients' = IF mongo_manager = None THEN openClients
                      ELSE openClients \ {mongo_manager}
    /\ main_scraper' = None
    /\ detail_scraper_pool' = NoPool
    /\ all_workers' = {}
    /\ svcPc' = "start"
    /\ lastStop' = "returned"
    /\ UNCHANGED <<starts, fast_polling_task, slow_polling_task, laneTask, mongo_manager,
                   openScrapers, all_scrapers, openWorkers, active, fastVars,
                   archiverVars, slowTaskVars, electionVars, parserVars, notifierVars>>

InitStop ==
    /\ lease = NoLease
    /\ pc = [r \in Replicas |-> "acquire"]
    /\ sleepLeft = [r \in Replicas |-> 0]
    /\ running = [r \in Replicas |-> FALSE]
    /\ InitService
    /\ QUARANTINE_PERIOD = MaxGrace

NextStop ==
    \/ ServiceStart
    \/ \E g \in Gens : FastCycleBegins(g)
    \/ \E g \in Gens : SlowCycleBegins(g)
    \/ \E l \in Lanes, g \in Gens : CycleEnds(l, g)
    \/ StopFastTask
    \/ StopSlowTask
    \/ StopCloseScraper
    \/ StopCloseStore

SpecStop == InitStop /\ [][NextStop]_vars

\* ------------------------------------- demotion and promotion again
\* The runs of the fast lane of one ScrapingService object (main.py creates
\* one and the elector calls start() and stop() on it), cycle by cycle.
\* start() that succeeds: a new main scraper, a new MongoManager, a new
\* StallMonitor (no state tracked) and the two tasks; the fast task enters
\* its loop.  No other attribute is assigned.
RestartStart ==
    /\ svcPc = "start"
    /\ starts < MaxStarts
    /\ starts' = starts + 1
    /\ svcPc' = "leading"
    /\ main_scraper' = starts + 1
    /\ mongo_manager' = starts + 1
    /\ openScrapers' = openScrapers \cup {starts + 1}
    /\ openClients' = openClients \cup {starts + 1}
    /\ fast_polling_task' = starts + 1
    /\ slow_polling_task' = starts + 1
    /\ laneTask' = [l \in Lanes |-> [laneTask[l] EXCEPT ![starts + 1] = "sleeping"]]
    /\ match_states' = EmptyMap
    /\ fastPhase' = "ready"
    /\ lastCycle' = NoCycle
    /\ UNCHANGED <<all_scrapers, lastStop, active, clock, history, quarantine_zone,
                   QUARANTINE_PERIOD, live_data_cache, alerts, checkedAt, archiverVars,
                   slowVars, electionVars, parserVars, notifierVars>>

\* A fast cycle of the run, with a feed that lists every entity or none.
RestartFastCycle ==
    /\ svcPc = "leading"
    /\ SurviveFastCycleOk

\* stop() that returns: both tasks are cancelled and awaited, the scraper
\* and the store connection are closed, fast_polling_task,
\* slow_polling_task, main_scraper, detail_scraper_pool and all_workers are
\* reset.  quarantine_zone and live_data_cache are not assigned.
RestartStop ==
    /\ svcPc = "leading"
    /\ svcPc' = "start"
    /\ laneTask' = [l \in Lanes |->
                      [laneTask[l] EXCEPT ![starts] = CancelAndAwait(@)]]
    /\ fast_polling_task' = None
    /\ slow_polling_task' = None
    /\ openScrapers' = openScrapers \ {main_scraper}
    /\ openClients' = openClients \ {mongo_manager}
    /\ main_scraper' = None
    /\ detail_scraper_pool' = NoPool
    /\ all_workers' = {}
    /\ lastStop' = "returned"
    /\ UNCHANGED <<starts, mongo_manager, all_scrapers, openWorkers, slowTaskVars, active,
                   fastVars, archiverVars, electionVars, parserVars, notifierVars>>

\* Time passes while the service is stopped.
StoppedTick ==
    /\ svcPc = "start"
    /\ clock < MaxTime
    /\ clock' = clock + 1
    /\ UNCHANGED <<active, history, quarantine_zone, QUARANTINE_PERIOD, live_data_cache,
                   match_states, alerts, checkedAt, lastCycle, fastPhase, archiverVars,
                   slowVars, electionVars, lifeVars, parserVars, notifierVars>>

\* The sleep of the fast lane of a run ends.
RestartTick ==
    /\ svcPc = "leading"
    /\ TickPoller

NextRestart ==
    \/ RestartStart
    \/ RestartFastCycle
    \/ RestartTick
    \/ RestartStop
    \/ StoppedTick

SpecRestart == InitLanes /\ [][NextRestart]_vars

\* ------------------------------------------- the head-to-head parsers
\* The characters of an h2h string: the two separators and a character of
\* a field.
H2HChars == {"#", "/", "x"}

RECURSIVE StringsOfLength(_)
StringsOfLength(n) ==
    IF n = 0 THEN {<< >>}
    ELSE {<<c>> \o str : c \in H2HChars, str \in StringsOfLength(n - 1)}

\* What _parse_h2h_string is called with: None or a string of at most
\* maxLen characters.
H2HInputs(maxLen) == {NotAString} \cup UNION {StringsOfLength(n) : n \in 0..maxLen}

\* str.split(sep) for a separator of one character.
RECURSIVE Split(_, _)
Split(str, sep) ==
    IF \A i \in 1..Len(str) : str[i] # sep THEN <<str>>
    ELSE LET i == CHOOSE j \in 1..Len(str) :
                     str[j] = sep /\ \A k \in 1..(j - 1) : str[k] # sep
         IN <<SubSeq(str, 1, i - 1)>> \o Split(SubSeq(str, i + 1, Len(str)), sep)

\* data_mapper._safe_get_from_list(data_list, index): the default None for
\* an index out of range and for an empty value.
SafeGetFromList(data_list, index) ==
    IF index + 1 > Len(data_list) THEN NotAString
    ELSE IF data_list[index + 1] # << >> THEN data_list[index + 1] ELSE NotAString

\* fields[index] if len(fields) > index else None
FieldOrNone(fields, index) ==
    IF Len(fields) > index THEN fields[index + 1] ELSE NotAString

\* The meeting data_mapper._parse_h2h_string appends for one part.
MapperMeeting(fields) ==
    [year |-> SafeGetFromList(fields, 8), event |-> SafeGetFromList(fields, 5),
     surface |-> SafeGetFromList(fields, 7), score |-> SafeGetFromList(fields, 2)]

\* The meeting ScrapingService._parse_h2h_string appends for one part.
ServiceMeeting(fields) ==
    [year |-> FieldOrNone(fields, 8), event |-> FieldOrNone(fields, 5),
     surface |-> FieldOrNone(fields, 7), score |-> FieldOrNone(fields, 2)]

\* The loop over the parts: if len(fields) < 9: continue.
RECURSIVE MapperMeetings(_)
MapperMeetings(parts) ==
    IF parts = << >> THEN << >>
    ELSE LET fields == Split(Head(parts), "/")
         IN (IF Len(fields) < 9 THEN << >> ELSE <<MapperMeeting(fields)>>)
                \o MapperMeetings(Tail(parts))

RECURSIVE ServiceMeetings(_)
ServiceMeetings(parts) ==
    IF parts = << >> THEN << >>
    ELSE LET fields == Split(Head(parts), "/")
         IN (IF Len(fields) < 9 THEN << >> ELSE <<ServiceMeeting(fields)>>)
                \o ServiceMeetings(Tail(parts))

\* data_mapper._parse_h2h_string
MapperParseH2H(str) ==
    IF str = NotAString \/ str = << >> THEN << >> ELSE MapperMeetings(Split(str, "#"))

\* ScrapingService._parse_h2h_string
ServiceParseH2H(str) ==
    IF str = NotAString \/ str = << >> THEN << >> ELSE ServiceMeetings(Split(str, "#"))

\* Both copies are called with the same argument.
ParseH2H ==
    /\ ~meetings.done
    /\ meetings' = [done |-> TRUE, mapper |-> MapperParseH2H(h2h_str),
                    service |-> ServiceParseH2H(h2h_str)]
    /\ UNCHANGED <<h2h_str, active, fastVars, archiverVars, slowVars, electionVars,
                   lifeVars, notifierVars>>

InitParse ==
    /\ lease = NoLease
    /\ pc = [r \in Replicas |-> "acquire"]
    /\ sleepLeft = [r \in Replicas |-> 0]
    /\ running = [r \in Replicas |-> FALSE]
    /\ clock = 0
    /\ active = EmptyMap
    /\ history = {}
    /\ quarantine_zone = EmptyMap
    /\ QUARANTINE_PERIOD = MaxGrace
    /\ live_data_cache = [data |-> EmptyMap, last_updated |-> None]
    /\ match_states = EmptyMap
    /\ alerts = EmptyMap
    /\ checkedAt = EmptyMap
    /\ lastCycle = NoCycle
    /\ fastPhase = "ready"
    /\ lastArchive = NoArchive
    /\ removed = [arch |-> {}, sweep |-> {}]
    /\ historyCopies = EmptyMap
    /\ InitSlowLane
    /\ InitLifecycle
    /\ InitNotifier
    /\ h2h_str \in H2HInputs(MaxH2HLen)
    /\ meetings = NotParsed

NextParse == ParseH2H

SpecParse == InitParse /\ [][NextParse]_vars

\* ------------------------------------------------- the stall monitor alone
\* The StallMonitor of a started service, called once per poll interval
\* with the snapshot of the cycle, over a time long enough for an alert, a
\* change of score and a second alert.
StallHorizon == 2 * StallTicks + 4

\* The snapshots check_and_update_all can be called with at time now.
Snapshots(now) ==
    UNION {[live -> {TransformSummary(sm, now) : sm \in SummaryScores}] :
              live \in SUBSET Ids}

\* check_and_update_all(all_current_matches)
StallCheck ==
    /\ fastPhase = "ready"
    /\ fastPhase' = "sleeping"
    /\ \E snapshot \in Snapshots(clock) :
          /\ match_states' = CheckAndUpdateAll(match_states, snapshot, clock)
          /\ alerts' = AlertsAfter(match_states, snapshot, clock)
          /\ checkedAt' = CheckedAtAfter(match_states, snapshot, clock)
          /\ sent' = SentAfter(match_states, snapshot, clock)
    /\ UNCHANGED <<clock, active, history, quarantine_zone, QUARANTINE_PERIOD,
                   live_data_cache, lastCycle, archiverVars, slowVars, electionVars,
                   lifeVars, parserVars>>

\* The poll interval between two calls.
StallTick ==
    /\ fastPhase = "sleeping"
    /\ clock < StallHorizon
    /\ clock' = clock + 1
    /\ fastPhase' = "ready"
    /\ UNCHANGED <<active, history, quarantine_zone, QUARANTINE_PERIOD, live_data_cache,
                   match_states, alerts, checkedAt, lastCycle, archiverVars, slowVars,
                   electionVars, lifeVars, parserVars, notifierVars>>

NextStall ==
    \/ StallCheck
    \/ StallTick

SpecStall == InitLanes /\ [][NextStall]_vars

\* -------------------------------------------------------------- archiver.py
\* The documents the archiver can find in "tenipo": written at time 0, with
\* a status of LIVE or COMPLETED.
ArchiverDocs ==
    { [ timePolled |-> 0,
        score |-> [sets |-> <<6, 4>>, currentGame |-> "15-0", currentTiebreak |-> "None",
                   status |-> st] ] : st \in {"LIVE", "COMPLETED"} }

\* What insert_many(ordered=False) reports for one document: inserted, write
\* error 11000 (its _id is already in the history collection), or another
\* write error.
InsertOutcomes(hist, id) ==
    IF id \in hist THEN {"duplicate", "error"} ELSE {"inserted", "error"}

\* A classification that takes every write error as unsafe.
UnsafeIdsAnyError(batch, outcome) ==
    {id \in batch : outcome[id] \in {"error", "duplicate"}}

\* unsafe_ids: the ids of the write errors whose code is not 11000.
UnsafeIds(batch, outcome) == {id \in batch : outcome[id] = "error"}

\* A delete step that takes only the documents this call inserted.
IdsToDeleteInsertedOnly(batch, outcome) == {id \in batch : outcome[id] = "inserted"}

\* A delete step that takes the whole batch.
IdsToDeleteWholeBatch(batch, outcome) == batch

\* ids_to_delete: all of original_ids when insert_many raised nothing,
\* original_ids - unsafe_ids after a BulkWriteError.
IdsToDelete(batch, outcome) ==
    IF \A id \in batch : outcome[id] = "inserted"
    THEN batch
    ELSE batch \ UnsafeIds(batch, outcome)

\* An archive step that goes on to the delete step after any exception.
ProcessArchivingDeletesOnFailure(act, hist, batch, outcome, failed) ==
    IF failed
    THEN [active |-> DeleteMany(act, batch), history |-> hist, deleted |-> batch]
    ELSE LET ids_to_delete == IdsToDelete(batch, outcome) IN
         [ active |-> DeleteMany(act, ids_to_delete),
           history |-> hist \cup {id \in batch : outcome[id] = "inserted"},
           deleted |-> ids_to_delete ]

\* MongoArchiver._process_archiving.  failed: insert_many raised another
\* exception than BulkWriteError and nothing was inserted; the method returns
\* before the delete step.
ProcessArchiving(act, hist, batch, outcome, failed) ==
    IF failed
    THEN [active |-> act, history |-> hist, deleted |-> {}]
    ELSE LET ids_to_delete == IdsToDelete(batch, outcome) IN
         [ active |-> DeleteMany(act, ids_to_delete),
           history |-> hist \cup {id \in batch : outcome[id] = "inserted"},
           deleted |-> ids_to_delete ]

\* find({"score.status": "COMPLETED"})
CompletedIds(act) == {id \in DOMAIN act : act[id].score.status = "COMPLETED"}

\* find(stale_query): timePolled before now - stale_threshold and a status
\* other than COMPLETED.
StaleIds(act, now) ==
    {id \in DOMAIN act :
        act[id].timePolled < now - StaleTicks /\ act[id].score.status # "COMPLETED"}

\* MongoArchiver.archive_completed_matches: the archive of the COMPLETED
\* documents, then the deletion of the stale ones.
ArchiveCompletedMatches(outcome, failed) ==
    LET completed == CompletedIds(active)
        res == IF completed = {}
               THEN [active |-> active, history |-> history, deleted |-> {}]
               ELSE ProcessArchiving(active, history, completed, outcome, failed)
        stale_ids == StaleIds(res.active, clock)
        inserted == IF failed THEN {} ELSE {id \in completed : outcome[id] = "inserted"}
    IN
    /\ active' = DeleteMany(res.active, stale_ids)
    /\ history' = res.history
    /\ historyCopies' = [id \in res.history |->
                            (IF id \in history THEN historyCopies[id] ELSE 0)
                            + (IF id \in inserted THEN 1 ELSE 0)]
    /\ lastArchive' = [batch |-> completed,
                       safe |-> IF failed THEN {}
                                ELSE {id \in completed : outcome[id] # "error"},
                       dup |-> IF failed THEN {}
                               ELSE {id \in completed : outcome[id] = "duplicate"},
                       failed |-> failed /\ completed # {}]
    /\ removed' = [arch |-> removed.arch \cup res.deleted,
                   sweep |-> removed.sweep \cup stale_ids]
    /\ UNCHANGED <<clock, quarantine_zone, QUARANTINE_PERIOD, live_data_cache, match_states,
                   alerts, checkedAt, lastCycle, fastPhase, slowVars, electionVars,
                   lifeVars, parserVars, notifierVars>>

\* insert_many reported a result or a BulkWriteError.
ArchiveCompleted ==
    \E outcome \in [CompletedIds(active) -> {"inserted", "duplicate", "error"}] :
        /\ \A id \in CompletedIds(active) : outcome[id] \in InsertOutcomes(history, id)
        /\ ArchiveCompletedMatches(outcome, FALSE)

\* insert_many raised another exception (no connection to MongoDB).
ArchiveCompletedInsertFailed ==
    /\ CompletedIds(active) # {}
    /\ ArchiveCompletedMatches([id \in CompletedIds(active) |-> "error"], TRUE)

\* Time passes between two runs of the archiver.
TickArchiver ==
    /\ clock < MaxTime
    /\ clock' = clock + 1
    /\ UNCHANGED <<active, history, quarantine_zone, QUARANTINE_PERIOD, live_data_cache,
                   match_states, alerts, checkedAt, lastCycle, fastPhase, archiverVars,
                   slowVars, electionVars, lifeVars, parserVars, notifierVars>>

\* The archiver is built over the collections as they are: any documents in
\* "tenipo", and in "tenipo_history" the records of earlier runs.
InitArchiver ==
    /\ lease = NoLease
    /\ pc = [r \in Replicas |-> "acquire"]
    /\ sleepLeft = [r \in Replicas |-> 0]
    /\ running = [r \in Replicas |-> FALSE]
    /\ clock = 0
    /\ \E S \in SUBSET Ids : active \in [S -> ArchiverDocs]
    /\ history \in SUBSET Ids
    /\ quarantine_zone = EmptyMap
    /\ QUARANTINE_PERIOD = MaxGrace
    /\ live_data_cache = [data |-> EmptyMap, last_updated |-> None]
    /\ match_states = EmptyMap
    /\ alerts = EmptyMap
    /\ checkedAt = EmptyMap
    /\ lastCycle = NoCycle
    /\ fastPhase = "ready"
    /\ lastArchive = NoArchive
    /\ removed = [arch |-> {}, sweep |-> {}]
    /\ historyCopies = [id \in history |-> 1]
    /\ InitSlowLane
    /\ InitLifecycle
    /\ InitNotifier
    /\ InitNoParse

NextArchiver ==
    \/ ArchiveCompleted
    \/ ArchiveCompletedInsertFailed
    \/ TickArchiver

SpecArchiver == InitArchiver /\ [][NextArchiver]_vars

\* ------------------------------------------------------------ main.py
InitElection ==
    /\ lease = NoLease
    /\ pc = [r \in Replicas |-> "acquire"]
    /\ sleepLeft = [r \in Replicas |-> 0]
    /\ running = [r \in Replicas |-> FALSE]
    /\ InitService
    /\ QUARANTINE_PERIOD = MaxGrace

\* An election loop that runs as leader whatever the reply.
ElectionBranchAlwaysLeader(acquired) == "start"

\* if acquired: _run_as_leader() else: _run_as_follower()
ElectionBranch(acquired) == IF acquired THEN "start" ELSE "follower_get"

\* _election_loop: acquired = redis.set(KEY, worker_id, nx=True, ex=TTL)
Acquire(r) ==
    /\ pc[r] = "acquire"
    /\ LET reply == RedisSetNx(lease, r) IN
          /\ lease' = reply.lease
          /\ pc' = [pc EXCEPT ![r] = ElectionBranch(reply.acquired)]
    /\ UNCHANGED <<sleepLeft, running, pollerVars>>

\* _run_as_leader: await self.service.start(), then the refresh task is
\* created and sleeps TTL / 2.  start() returns without creating the polling
\* tasks when the main scraper or MongoDB is unavailable (ok = FALSE).
StartService(r) ==
    /\ pc[r] = "start"
    /\ \E ok \in BOOLEAN : running' = [running EXCEPT ![r] = ok]
    /\ pc' = [pc EXCEPT ![r] = "refresh_sleep"]
    /\ sleepLeft' = [sleepLeft EXCEPT ![r] = LeaseTtlTicks \div 2]
    /\ UNCHANGED <<lease, pollerVars>>

\* A renewal check that never notices the loss.
StillHolderAlways(l, r) == TRUE

\* The outcome of the renewal check `redis.get(KEY) == worker_id`.
StillHolder(l, r) == l.holder = r

\* _refresh_lock: after the sleep, if redis.get(KEY) == worker_id go on to
\* expire(), else break out of the loop (which triggers the demotion).
RefreshCheck(r) ==
    /\ pc[r] = "refresh_sleep"
    /\ sleepLeft[r] = 0
    /\ pc' = [pc EXCEPT ![r] = IF StillHolder(lease, r) THEN "refresh_expire" ELSE "demote_stop"]
    /\ UNCHANGED <<lease, sleepLeft, running, pollerVars>>

\* _refresh_lock: redis.expire(KEY, TTL), then the next sleep of TTL / 2.
RefreshExpire(r) ==
    /\ pc[r] = "refresh_expire"
    /\ lease' = RedisExpire(lease)
    /\ pc' = [pc EXCEPT ![r] = "refresh_sleep"]
    /\ sleepLeft' = [sleepLeft EXCEPT ![r] = LeaseTtlTicks \div 2]
    /\ UNCHANGED <<running, pollerVars>>

\* _refresh_lock: redis.get or redis.expire raises (Redis unreachable); the
\* error is logged and the loop is left, which triggers the demotion.
RefreshError(r) ==
    /\ \/ pc[r] = "refresh_sleep" /\ sleepLeft[r] = 0
       \/ pc[r] = "refresh_expire"
    /\ pc' = [pc EXCEPT ![r] = "demote_stop"]
    /\ UNCHANGED <<lease, sleepLeft, running, pollerVars>>

\* _demote_to_follower: await self.service.stop()
DemoteStop(r) ==
    /\ pc[r] = "demote_stop"
    /\ running' = [running EXCEPT ![r] = FALSE]
    /\ pc' = [pc EXCEPT ![r] = "demote_get"]
    /\ UNCHANGED <<lease, sleepLeft, pollerVars>>

\* _demote_to_follower: if redis.get(KEY) == worker_id
DemoteGet(r) ==
    /\ pc[r] = "demote_get"
    /\ pc' = [pc EXCEPT ![r] = IF lease.holder = r THEN "demote_delete" ELSE "acquire"]
    /\ UNCHANGED <<lease, sleepLeft, running, pollerVars>>

\* _demote_to_follower: redis.delete(KEY)
DemoteDelete(r) ==
    /\ pc[r] = "demote_delete"
    /\ lease' = NoLease
    /\ pc' = [pc EXCEPT ![r] = "acquire"]
    /\ UNCHANGED <<sleepLeft, running, pollerVars>>

\* _run_as_follower: redis.get(KEY) for the log line, then asyncio.sleep(15)
FollowerGet(r) ==
    /\ pc[r] = "follower_get"
    /\ pc' = [pc EXCEPT ![r] = "follower_sleep"]
    /\ sleepLeft' = [sleepLeft EXCEPT ![r] = FollowerTicks]
    /\ UNCHANGED <<lease, running, pollerVars>>

\* _run_as_follower returns; the election loop tries the acquisition again.
FollowerWake(r) ==
    /\ pc[r] = "follower_sleep"
    /\ sleepLeft[r] = 0
    /\ pc' = [pc EXCEPT ![r] = "acquire"]
    /\ UNCHANGED <<lease, sleepLeft, running, pollerVars>>

\* One tick of time: the TTL of the lease runs down (Redis drops the key at
\* 0) and every sleeping task gets one tick closer to its wake-up.
TickElection ==
    /\ \/ lease.holder # None
       \/ \E r \in Replicas : sleepLeft[r] > 0
    /\ lease' = IF lease.holder = None \/ lease.ttl = 0 THEN lease
                ELSE IF lease.ttl = 1 THEN NoLease
                ELSE [lease EXCEPT !.ttl = @ - 1]
    /\ sleepLeft' = [r \in Replicas |-> IF sleepLeft[r] > 0 THEN sleepLeft[r] - 1 ELSE 0]
    /\ UNCHANGED <<pc, running, pollerVars>>

\* The lease key is deleted by someone else than the replicas (an operator,
\* a flush of the Redis instance).
ExternalDelete ==
    /\ lease.holder # None
    /\ lease' = NoLease
    /\ UNCHANGED <<pc, sleepLeft, running, pollerVars>>

ReplicaStep(r) ==
    \/ Acquire(r)
    \/ StartService(r)
    \/ RefreshCheck(r)
    \/ RefreshExpire(r)
    \/ RefreshError(r)
    \/ DemoteStop(r)
    \/ DemoteGet(r)
    \/ DemoteDelete(r)
    \/ FollowerGet(r)
    \/ FollowerWake(r)

NextElection ==
    \/ \E r \in Replicas : ReplicaStep(r)
    \/ TickElection

NextElectionEnv ==
    \/ NextElection
    \/ ExternalDelete

SpecElection == InitElection /\ [][NextElection]_vars

SpecElectionEnv == InitElection /\ [][NextElectionEnv]_vars

\* The event loop runs every task that is ready, and time goes on.
FairSpecElectionEnv ==
    /\ SpecElectionEnv
    /\ \A r \in Replicas : WF_vars(ReplicaStep(r))
    /\ WF_vars(TickElection)

\* The process of the lease holder dies: its election loop and its poller
\* are gone, the lease key stays in Redis.  One replica at least stays alive.
Crash(r) ==
    /\ lease.holder = r
    /\ pc[r] \in {"start", "refresh_sleep", "refresh_expire"}
    /\ Cardinality({s \in Replicas : pc[s] = "crashed"}) < NumReplicas - 1
    /\ pc' = [pc EXCEPT ![r] = "crashed"]
    /\ running' = [running EXCEPT ![r] = FALSE]
    /\ sleepLeft' = [sleepLeft EXCEPT ![r] = 0]
    /\ UNCHANGED <<lease, pollerVars>>

NextElectionCrash ==
    \/ NextElection
    \/ \E r \in Replicas : Crash(r)

\* The election loops of the replicas that are alive go on, and time too.
FairSpecElectionCrash ==
    /\ InitElection
    /\ [][NextElectionCrash]_vars
    /\ \A r \in Replicas : WF_vars(ReplicaStep(r))
    /\ WF_vars(TickElection)

\* ------------------------------------------------------------------ claims

\* The positions of the election loop between a won acquisition and the end
\* of service.stop().
LeaderPositions == {"start", "refresh_sleep", "refresh_expire", "demote_stop"}

\* Replica r is in its renewal loop and the lease is absent or names another
\* replica.
LostLease(r) ==
    /\ pc[r] \in {"refresh_sleep", "refresh_expire"}
    /\ lease.holder # r

\* A step of the fast lane that is one whole cycle.
FastCycleStep == fastPhase = "ready" /\ fastPhase' = "sleeping"

\* C1: an acquisition (set-if-absent with TTL) succeeds only while no
\* non-expired lease exists, so the lease never passes from one holder to
\* another without having been absent: at most one replica is the recorded
\* holder at any instant, and the recorded lease is never an expired one.
C1_AcquireOnlyWhenAbsent ==
    [][/\ \A r \in Replicas :
            (pc[r] = "acquire" /\ pc'[r] = "start")
                => (lease.holder = None /\ lease'.holder = r /\ lease'.ttl > 0)
       /\ (lease'.holder # None /\ lease'.holder # lease.holder)
                => lease.holder = None]_vars

\* A replica's set-if-absent has just failed while another replica holds
\* the lease.
C1_Witness ==
    \E r, s \in Replicas :
        /\ r # s
        /\ lease.holder = r
        /\ lease.ttl > 0
        /\ pc[s] = "follower_get"
        /\ pc[r] \in {"start", "refresh_sleep", "refresh_expire"}

\* C2: at every instant at most one replica has its Feed Poller running.
C2_AtMostOnePollerRunning ==
    Cardinality({r \in Replicas : running[r]}) <= 1

\* C3: after _process_archiving, an id of the batch is deleted from the
\* active store exactly when its insert succeeded or failed with a
\* duplicate-key conflict only; a deleted id is in the history store, and an
\* id whose insert failed otherwise is still in the active store.
C3_DeletedIffSafelyCopied ==
    \A id \in lastArchive.batch :
        /\ id \notin DOMAIN active <=> id \in lastArchive.safe
        /\ id \notin DOMAIN active => id \in history

\* A batch of which one id was copied and deleted and another failed to
\* insert and was kept.
C3_Witness ==
    \E a, b \in lastArchive.batch :
        /\ a \in lastArchive.safe /\ a \notin DOMAIN active /\ a \in history
        /\ b \notin lastArchive.safe /\ b \in DOMAIN active

\* C4: a fast cycle whose summary fetch returned ok = false upserts nothing,
\* moves nothing in or out of quarantine, archives nothing and rebuilds no
\* snapshot: the stores, the quarantine map, the snapshot and the stall
\* states are the same after the cycle as before it.
C4_FailedFetchChangesNothing ==
    [][(FastCycleStep /\ ~lastCycle'.ok)
          => UNCHANGED <<active, history, quarantine_zone, live_data_cache, match_states>>]_vars

\* A failed cycle has just ended while the active store holds an id that is
\* not quarantined (which an empty summary would have quarantined).
C4_Witness ==
    /\ fastPhase = "sleeping"
    /\ ~lastCycle.ok
    /\ \E id \in DOMAIN active : id \notin DOMAIN quarantine_zone

\* C5: an id enters the quarantine map only in a successful cycle in which
\* it is in the active store and absent from the live summary, and that
\* cycle does not have it in its archive batch, whatever the grace period.
C5_QuarantineEntry ==
    [][\A id \in (DOMAIN quarantine_zone') \ (DOMAIN quarantine_zone) :
          /\ FastCycleStep
          /\ lastCycle'.ok
          /\ id \in DOMAIN active
          /\ id \in DOMAIN active'
          /\ id \notin lastCycle'.live
          /\ id \notin lastCycle'.batch]_vars

\* With a grace period of 0 an id has just been quarantined and is not in
\* the batch of that cycle.
C5_Witness ==
    /\ fastPhase = "sleeping"
    /\ QUARANTINE_PERIOD = 0
    /\ \E id \in lastCycle.newly :
          id \in DOMAIN quarantine_zone /\ id \notin lastCycle.batch

\* C6: a quarantined id that is in the live summary of a cycle loses its
\* quarantine record in that cycle and is not in its archive batch, also
\* when it has been quarantined for longer than the grace period.
C6_ReappearedIsReleased ==
    [][(FastCycleStep /\ lastCycle'.ok)
          => \A id \in lastCycle'.live \cap DOMAIN quarantine_zone :
                id \notin DOMAIN quarantine_zone' /\ id \notin lastCycle'.batch]_vars

\* An id quarantined for longer than the grace period has just reappeared
\* and was released.
C6_Witness ==
    /\ fastPhase = "sleeping"
    /\ \E id \in lastCycle.overdueReappeared :
          id \notin DOMAIN quarantine_zone /\ id \in DOMAIN active

\* C7: after a cycle whose archive batch holds an id (absent for more than
\* the grace period), the active store no longer contains the id and the
\* history store contains it.
C7_DueIdIsArchived ==
    fastPhase = "sleeping"
        => \A id \in lastCycle.batch : id \notin DOMAIN active /\ id \in history

\* C8: for a tracked entity the number of alerts sent since its fingerprint
\* last changed is 0 as long as no check saw more than the stall threshold
\* elapse since lastChangedAt, and exactly 1 from the first check that did.
C8_SingleStallAlert ==
    \A id \in DOMAIN match_states :
        LET st == match_states[id]
            elapsed == checkedAt[id] - st.last_updated
        IN /\ alerts[id] <= 1
           /\ alerts[id] = 1 <=> elapsed > StallTicks
           /\ st.alert_sent <=> alerts[id] = 1

\* An entity has been checked over three stall thresholds with the same
\* fingerprint, and one alert was sent.
C8_Witness ==
    \E id \in DOMAIN match_states :
        /\ checkedAt[id] - match_states[id].last_updated >= 3 * StallTicks
        /\ alerts[id] = 1
        /\ id \in LiveIn(live_data_cache.data)

C10_RemovedIsInHistory ==
    (removed.arch \cup removed.sweep) \subseteq history

\* C10 as amended: every record that the archive step removed is in the
\* history store; the records removed without a copy are those of the stale
\* sweep.
C10_ArchivedIsInHistory ==
    /\ removed.arch \subseteq history
    /\ ((removed.arch \cup removed.sweep) \ history) \subseteq removed.sweep

\* The archive step has removed a record and the stale sweep has removed
\* another one that is not in the history store.
C10_Witness ==
    /\ removed.arch # {}
    /\ removed.sweep \ history # {}

\* _process_archiving called once more with the batch of the last call, for
\* every reply insert_many can then give: the two stores after it.
RetryOfLastArchive ==
    { ProcessArchiving(active, history, lastArchive.batch, outcome, FALSE) :
        outcome \in { o \in [lastArchive.batch -> {"inserted", "duplicate", "error"}] :
                        \A id \in lastArchive.batch : o[id] \in InsertOutcomes(history, id) } }

\* C11: a record of the batch whose insert failed with a duplicate-key
\* conflict only is deleted from the active store and the history store
\* holds exactly one record of its id; archiving the same batch again leaves
\* that record as it is in both stores, and changes neither store at all
\* when every record of the batch was copied or was a duplicate.
C11_DuplicateIsArchivedOnce ==
    /\ \A id \in lastArchive.dup :
          /\ id \notin DOMAIN active
          /\ id \in history
          /\ historyCopies[id] = 1
          /\ \A res \in RetryOfLastArchive :
                id \notin DOMAIN res.active /\ id \in res.history
    /\ (lastArchive.dup # {} /\ lastArchive.safe = lastArchive.batch)
          => \A res \in RetryOfLastArchive :
                res.active = active /\ res.history = history /\ res.deleted \cap DOMAIN active = {}

\* A batch with a record that was already in the history store and a record
\* that was not has been archived: both are gone from the active store and
\* each has one record in the history store.
C11_Witness ==
    /\ lastArchive.safe = lastArchive.batch
    /\ \E a \in lastArchive.dup : \E b \in lastArchive.batch \ lastArchive.dup :
          /\ a \notin DOMAIN active /\ historyCopies[a] = 1
          /\ b \notin DOMAIN active /\ historyCopies[b] = 1

\* C12: a call of the archiver whose insert_many failed as a whole deletes no
\* record of its batch: every id of the batch keeps its document in the
\* active store, and the history store is as before.
C12_FailedInsertDeletesNothing ==
    [][(clock' = clock /\ lastArchive'.failed)
          => /\ lastArchive'.batch = CompletedIds(active)
             /\ \A id \in lastArchive'.batch :
                   id \in DOMAIN active' /\ active'[id] = active[id]
             /\ history' = history
             /\ historyCopies' = historyCopies]_vars

\* The insert of a batch has failed as a whole: its records, none of which
\* is in the history store, are still in the active store.
C12_Witness ==
    /\ lastArchive.failed
    /\ lastArchive.batch # {}
    /\ lastArchive.batch \subseteq DOMAIN active
    /\ lastArchive.batch \cap history = {}

\* The workers that enrichment tasks hold.
HeldWorkers == {worker[id] : id \in DOMAIN worker} \ {None}

\* C13: while the pool is initialized its N workers are the ones in the
\* queue plus the ones held by enrichment tasks in progress, each held by
\* one task only; a task that has ended (record not found, empty fetch,
\* exception, cancellation, success) holds none, so with no task in progress
\* the queue holds all N workers.
C13_PoolKeepsAllWorkers ==
    detail_scraper_pool.ready =>
        /\ Cardinality(all_workers) = PoolSize
        /\ detail_scraper_pool.queue \cup HeldWorkers = all_workers
        /\ detail_scraper_pool.queue \cap HeldWorkers = {}
        /\ \A id \in Ids : worker[id] # None => id \in TasksInProgress
        /\ \A i, j \in Ids : (i # j /\ worker[i] # None) => worker[i] # worker[j]
        /\ TasksInProgress = {} => Cardinality(detail_scraper_pool.queue) = PoolSize

\* Every enrichment task of a cycle has ended, one of them for an id whose
\* record is gone, and the queue of the initialized pool is full.
C13_Witness ==
    /\ slowPhase = "gather"
    /\ detail_scraper_pool.ready
    /\ TasksInProgress = {}
    /\ \E i, j \in Ids : /\ i # j
                          /\ taskPc[i] = "done" /\ i \notin DOMAIN active
                          /\ taskPc[j] = "done" /\ j \in DOMAIN active
    /\ detail_scraper_pool.queue = all_workers

\* The step in which a construction of the pool fails.
BuildFailureStep ==
    slowPhase = "building" /\ slowPhase' = "identify" /\ ~detail_scraper_pool'.ready

\* C14: a construction of the pool that fails closes every worker it had
\* created and leaves detail_scraper_pool None and all_workers empty; a
\* slow cycle that finds no pool starts a construction, and after a failure
\* the slow lane comes to start one again unless the service is stopped.
C14_FailedBuildIsUndoneAndRetried ==
    /\ [][BuildFailureStep
            => /\ openWorkers' \cap created_workers = {}
               /\ all_workers' = {}
               /\ detail_scraper_pool' = NoPool]_vars
    /\ [][(slowPhase = "ensure" /\ slowPhase' = "identify") => detail_scraper_pool.ready]_vars
    /\ (slowPhase = "identify" /\ ~detail_scraper_pool.ready)
          ~> (slowPhase \in {"building", "stopping"})

\* A construction has failed after it had created a worker: that worker is
\* closed and there is no pool.
C14_Witness ==
    /\ slowPhase = "identify"
    /\ ~detail_scraper_pool.ready
    /\ created_workers # {}
    /\ openWorkers = {}
    /\ all_workers = {}

\* C15: a replica stops its Feed Poller before it looks at the lease, and
\* the redis.delete of its demotion never removes a lease whose recorded
\* holder is another replica.
C15_NeverDeletesAnothersLease ==
    /\ [][\A r \in Replicas :
            (pc[r] = "demote_delete" /\ pc'[r] # "demote_delete")
                => (lease.holder \in {r, None} /\ ~running[r])]_vars
    /\ [](\A r \in Replicas : pc[r] \in {"demote_get", "demote_delete"} => ~running[r])

\* C16: the redis.expire of a renewal resets the TTL only of a lease whose
\* recorded holder, at that moment, is the renewing replica: it never
\* extends a lease that another replica acquired.
C16_RenewsOnlyOwnLease ==
    [][\A r \in Replicas :
          (pc[r] = "refresh_expire" /\ pc'[r] = "refresh_sleep" /\ lease.holder # None)
              => lease.holder = r]_vars

\* C17: a replica's poller starts only in the step after its own
\* set-if-absent found no lease and recorded the replica as holder; a replica
\* whose set-if-absent found a lease becomes a follower with no poller, sleeps
\* the follower delay and tries the acquisition again.
C17_PollerOnlyAfterOwnAcquisition ==
    /\ [][\A r \in Replicas :
            /\ (running'[r] /\ ~running[r]) => pc[r] = "start"
            /\ (pc'[r] = "start" /\ pc[r] # "start")
                  => (pc[r] = "acquire" /\ lease.holder = None /\ lease'.holder = r)
            /\ (pc[r] = "acquire" /\ pc'[r] # "acquire" /\ lease.holder # None)
                  => (pc'[r] = "follower_get" /\ ~running'[r] /\ lease' = lease)
            /\ (pc[r] = "follower_get" /\ pc'[r] # "follower_get")
                  => (pc'[r] = "follower_sleep" /\ sleepLeft'[r] = FollowerTicks)
            /\ (pc[r] = "follower_sleep" /\ pc'[r] # "follower_sleep")
                  => (pc'[r] = "acquire" /\ sleepLeft[r] = 0)]_vars
    /\ [](\A r \in Replicas : pc[r] \in {"follower_get", "follower_sleep"} => ~running[r])

\* A replica whose acquisition failed sleeps as a follower with no poller
\* while the holder of the lease runs its poller.
C17_Witness ==
    \E r, s \in Replicas :
        /\ r # s
        /\ lease.holder = r /\ running[r] /\ pc[r] = "refresh_sleep"
        /\ pc[s] = "follower_sleep" /\ ~running[s] /\ sleepLeft[s] = 0

\* C18: when the holder of the lease has crashed, the lease expires and
\* another replica acquires it and goes on to start its Feed Poller; when
\* there is no lease (as at a cold start) some replica acquires it.
C18_LeadershipIsRecovered ==
    /\ \A r \in Replicas :
          (pc[r] = "crashed" /\ lease.holder = r)
              ~> (\E s \in Replicas : s # r /\ lease.holder = s /\ pc[s] = "start")
    /\ (lease.holder = None) ~> (\E s \in Replicas : lease.holder = s /\ pc[s] = "start")
    /\ [][\A s \in Replicas : (pc[s] = "start" /\ pc'[s] # "start")
              => pc'[s] \in {"refresh_sleep", "crashed"}]_vars

\* A leader has crashed and another replica holds the lease and runs its
\* poller.
C18_Witness ==
    \E r, s \in Replicas :
        /\ r # s
        /\ pc[r] = "crashed"
        /\ lease.holder = s
        /\ running[s]

\* C19: a replica whose service.start() created no polling task does not go
\* on holding the lease: it never renews the TTL of its lease while its
\* poller is not running.
C19_NoRenewalWithoutPoller ==
    [][\A r \in Replicas :
          (pc[r] = "refresh_expire" /\ pc'[r] = "refresh_sleep" /\ lease.holder = r)
              => running[r]]_vars

AnswerFromSnapshot(id) ==
    IF id \in DOMAIN live_data_cache.data
    THEN [status |-> 200, body |-> [i \in {id} |-> live_data_cache.data[id]]]
    ELSE NotFound

C22_FullReadSucceedsAfterRebuild ==
    (running[Self] /\ live_data_cache.last_updated # None)
        => LET res == GetAllLiveItfData(running[Self], live_data_cache) IN
           /\ res.status = 200
           /\ res.body.matches = live_data_cache.data
           /\ res.body.match_count = Cardinality(DOMAIN live_data_cache.data)
           /\ res.body.cache_age_seconds = clock - live_data_cache.last_updated

\* The write-back of the enrichment task of id: save_match_data has run.
EnrichmentWrite(id) == taskPc[id] = "save" /\ active' # active

\* C24: when the fast lane has written a newer score of an entity between an
\* enrichment's read of its record and the enrichment's write-back, the
\* write-back does not overwrite that score: the score the active store
\* holds for the entity is the same before and after the enrichment write.
C24_EnrichmentKeepsNewerScore ==
    [][\A id \in Ids :
          (EnrichmentWrite(id) /\ id \in DOMAIN active)
              => active'[id].score = active[id].score]_vars

\* C25: the timePolled of an entity in the active store never decreases,
\* whatever the interleaving of fast-lane upserts and enrichment writes.
C25_TimePolledNeverDecreases ==
    [][\A id \in (DOMAIN active) \cap (DOMAIN active') :
          active'[id].timePolled >= active[id].timePolled]_vars

\* C26: stop() performs every release, also when an earlier step of its
\* sequence raised: once stop() has ended, by return or by exception, no
\* pool worker and no main scraper has its driver open and no store
\* connection is open.
C26_StopReleasesEverything ==
    (svcPc = "start" /\ lastStop # "none")
        => (openWorkers = {} /\ openScrapers = {} /\ openClients = {})

\* C27: within one process at most one cycle of each lane is in progress at
\* any instant, also across a stop() followed by a start(): the task of a
\* lane created by an earlier start has ended when a later one runs.
C27_OneCyclePerLane ==
    \A l \in Lanes : Cardinality(LiveTasks(l)) <= 1 /\ Cardinality(InCycle(l)) <= 1

\* A second start followed a stop: the first fast task was cancelled and has
\* ended, and both tasks of the second start stand inside a cycle.
C27_Witness ==
    /\ starts = 2
    /\ laneTask["fast"][1] = "ended"
    /\ laneTask["fast"][2] = "cycle"
    /\ laneTask["slow"][2] = "cycle"

\* C28: after every completed reconciliation pass, every id that has a
\* quarantine record is in the active store and is absent from the live
\* summary of that pass.
C28_QuarantinedIsStoredAndAbsent ==
    (fastPhase = "sleeping" /\ lastCycle.ok /\ ~lastCycle.raised)
        => \A id \in DOMAIN quarantine_zone :
              id \in DOMAIN active /\ id \notin lastCycle.live

\* A completed pass has left a record quarantined in an earlier pass next to
\* an id it released.
C28_Witness ==
    /\ fastPhase = "sleeping" /\ lastCycle.ok /\ ~lastCycle.raised
    /\ lastCycle.reappeared # {}
    /\ \E id \in DOMAIN quarantine_zone : quarantine_zone[id] < clock

\* The parts of a string that have at least 9 fields.
LongParts(str) ==
    LET parts == Split(str, "#")
    IN {i \in 1..Len(parts) : Len(Split(parts[i], "/")) >= 9}

\* C29: the head-to-head parser returns the empty list for an empty or
\* non-string input and otherwise one meeting per '#'-separated part of at
\* least 9 '/'-separated fields, and the copy of data_mapper and the copy of
\* ScrapingService return the same result.
C29_H2HParsersAgree ==
    meetings.done
        => /\ (h2h_str = NotAString \/ h2h_str = << >>) => meetings.mapper = << >>
           /\ (h2h_str # NotAString /\ h2h_str # << >>)
                 => Len(meetings.mapper) = Cardinality(LongParts(h2h_str))
           /\ meetings.service = meetings.mapper

\* A fast cycle runs to its end: the fetch succeeded and nothing raised.
FastCycleCompletes == FastCycleStep /\ lastCycle'.ok /\ ~lastCycle'.raised

\* A slow cycle runs to its end and reaches its sleep.
SlowCycleCompletes == slowPhase # "sleeping" /\ slowPhase' = "sleeping"

\* The reconciliation ran on the store as the cycle updated it, with the
\* live ids of the cycle.
ReconciledAfterUpdate ==
    /\ \A id \in (DOMAIN active') \ lastCycle'.live : id \in DOMAIN quarantine_zone'
    /\ \A id \in lastCycle'.live : id \notin DOMAIN quarantine_zone'

\* The snapshot was rebuilt from the store as the cycle left it, and the
\* stall detection ran on that snapshot.
RebuiltThenChecked ==
    /\ live_data_cache' = [data |-> active', last_updated |-> clock]
    /\ DOMAIN checkedAt' = DOMAIN live_data_cache'.data
    /\ \A id \in DOMAIN checkedAt' : checkedAt'[id] = clock

C32_BatchOnlyAfterFullGrace ==
    (fastPhase = "sleeping" /\ lastCycle.ok)
        => /\ \A id \in lastCycle.batch :
                 /\ id \in DOMAIN quarantine_zone /\ id \in DOMAIN active
                 /\ id \notin lastCycle.live
                 /\ active[id].timePolled < quarantine_zone[id]
                 /\ clock - quarantine_zone[id] > QUARANTINE_PERIOD
           /\ \A id \in lastCycle.newly : quarantine_zone[id] = clock
           /\ \A id \in DOMAIN quarantine_zone :
                 active[id].timePolled < quarantine_zone[id]

\* An id that was in more than one summary is in the archive batch.
C32_Witness ==
    /\ fastPhase = "sleeping" /\ lastCycle.ok
    /\ \E id \in lastCycle.batch : active[id].timePolled > 0

\* A check of the stall monitor: in SpecStall the call itself, elsewhere the
\* fast cycle that calls it.
StallCheckStep == fastPhase = "ready" /\ fastPhase' = "sleeping"

\* C33: the first check that sees an entity as LIVE records its fingerprint
\* and the time and sends no alert for it; a check that sees a changed
\* fingerprint resets last_updated and alert_sent and sends no alert; a
\* check that sees the fingerprint unchanged for more than the threshold
\* with alert_sent reset sends one alert, also after an earlier alert.
C33_FirstSightingAndReset ==
    [][StallCheckStep =>
          \A id \in DOMAIN match_states' :
              checkedAt'[id] = clock =>
                 LET new == match_states'[id] IN
                 /\ id \notin DOMAIN match_states
                       => /\ new.last_updated = clock /\ ~new.alert_sent
                          /\ sent'[id] = sent[id]
                 /\ (id \in DOMAIN match_states
                        /\ HashChanged(match_states[id].score_hash, new.score_hash))
                       => /\ new.last_updated = clock /\ ~new.alert_sent
                          /\ sent'[id] = sent[id]
                 /\ (id \in DOMAIN match_states
                        /\ ~HashChanged(match_states[id].score_hash, new.score_hash))
                       => IF clock - match_states[id].last_updated > StallTicks
                             /\ ~match_states[id].alert_sent
                          THEN sent'[id] = sent[id] + 1 /\ new.alert_sent
                          ELSE sent'[id] = sent[id] /\ new = match_states[id]]_vars

\* A second alert was sent for an entity: after the first one its score
\* changed and then stayed unchanged for more than the threshold.
C33_Witness ==
    \E id \in DOMAIN match_states : sent[id] = 2 /\ match_states[id].alert_sent

\* The score-relevant fields of a document: its sets and its current-unit
\* score, stored as currentGame or, at 6-6, as currentTiebreak.
ScoreFields(doc) == <<doc.score.sets, doc.score.currentGame, doc.score.currentTiebreak>>

\* C34: the fingerprint depends on the score-relevant fields only: the
\* fingerprint computed for an entity at a check equals the one computed for
\* it at the previous check if and only if the sets and the current-unit
\* score of the two records are equal, whatever the times of the two
\* computations, also for records whose last set stands at 6-6.
C34_FingerprintFromScoreOnly ==
    [][(FastCycleStep /\ lastCycle'.ok /\ ~lastCycle'.raised)
          => \A id \in (DOMAIN match_states) \cap (DOMAIN match_states') :
                (CreateScoreHash(live_data_cache'.data[id], clock)
                    = match_states[id].score_hash)
                <=> (ScoreFields(live_data_cache'.data[id])
                        = ScoreFields(live_data_cache.data[id]))]_vars

\* The enrichment tasks that hold a worker.
HoldingTasks == {id \in DOMAIN worker : worker[id] # None}

\* C35: while the pool is initialized, at most PoolSize
\* (CONCURRENT_SCRAPER_LIMIT) enrichment tasks hold a worker, no worker is
\* held by two tasks, and no held worker is in the queue; a task that asks
\* for a worker stays at its get() while the queue is empty, and the worker
\* it gets was in the queue.
C35_AtMostNHoldAWorker ==
    /\ [](detail_scraper_pool.ready =>
            /\ Cardinality(HoldingTasks) <= PoolSize
            /\ \A i, j \in HoldingTasks : i # j => worker[i] # worker[j]
            /\ HeldWorkers \cap detail_scraper_pool.queue = {})
    /\ [][\A id \in DOMAIN taskPc :
            taskPc[id] = "get" =>
                /\ detail_scraper_pool.queue = {} =>
                        (taskPc'[id] = "get" /\ worker'[id] = None)
                /\ taskPc'[id] # "get" =>
                        /\ worker'[id] \in detail_scraper_pool.queue
                        /\ worker'[id] \notin detail_scraper_pool'.queue]_vars

\* Every worker of the pool is held and one more task waits at its get().
C35_Witness ==
    /\ detail_scraper_pool.ready
    /\ detail_scraper_pool.queue = {}
    /\ Cardinality(HoldingTasks) = PoolSize
    /\ \E id \in DOMAIN taskPc : taskPc[id] = "get" /\ worker[id] = None

\* C36: an exception raised inside a fast or a slow cycle does not end the
\* lane: after a fast cycle that raised the lane sleeps, wakes after its
\* interval (the only step to "ready" is the tick of the sleep) and runs
\* another cycle; after a slow cycle that raised the lane sleeps and then
\* begins another cycle.  (Time is followed up to MaxTime.)
C36_LanesSurviveExceptions ==
    /\ [](lastCycle.raised => fastPhase = "sleeping")
    /\ (lastCycle.raised /\ clock < MaxTime) ~> (fastPhase = "ready")
    /\ (fastPhase = "ready") ~> (fastPhase = "sleeping")
    /\ (slowPhase = "caught") ~> (slowPhase = "sleeping")
    /\ (slowPhase = "sleeping") ~> (slowPhase = "ensure")

\* A fast cycle has raised after an earlier cycle, and a pass of the slow
\* loop has raised and is in its except branch.
C36_Witness ==
    /\ lastCycle.raised
    /\ clock > 0
    /\ slowPhase = "caught"

\* C37: once the archiver has deleted an id from the active store, the
\* write-back of an enrichment of that id that was in flight (it had read
\* the record before the delete) does not re-create a record of the id.
C37_ArchiverDeleteWins ==
    [][\A id \in Ids :
          (taskPc[id] = "save" /\ taskPc'[id] = "done" /\ id \notin DOMAIN active)
              => id \notin DOMAIN active']_vars

\* The fields that only the enrichment writes on a document that exists.
EnrichmentFields ==
    {"statistics", "pointByPoint", "h2h", "round", "matchInfo", "hasDetailedData",
     "detailedDataUpdated"}

\* C38: a fast-lane upsert of an id that the active store already holds
\* changes no field other than timePolled, score, tournament and players:
\* the enrichment fields are as they were, and no write of either lane
\* turns hasDetailedData of a stored document back to false.
C38_FastUpsertKeepsEnrichment ==
    [][/\ \A id \in UpsertIds : \A sm \in FullSummaries :
             (FullUpsert(id, sm) /\ id \in DOMAIN active)
                 => /\ DOMAIN active'[id] = DOMAIN active[id]
                    /\ \A k \in (DOMAIN active[id]) \ SetFields :
                          active'[id][k] = active[id][k]
                    /\ \A k \in EnrichmentFields : active'[id][k] = active[id][k]
       /\ \A id \in (DOMAIN active) \cap (DOMAIN active') :
             active[id].hasDetailedData => active'[id].hasDetailedData]_vars

\* An enriched document, with a round and a court, has had a fast-lane
\* upsert after its enrichment, with another score and tournament.
C38_Witness ==
    \E id \in DOMAIN active :
        /\ active[id].hasDetailedData
        /\ active[id].round = "R16"
        /\ active[id].timePolled > active[id].detailedDataUpdated
        /\ active[id].tournament = "Cup"
        /\ active[id].score.currentTiebreak # "None"

\* C39: the summary fetch returns ok = true with no record only when the
\* source was read and lists no entity; a fetch that obtained no feed data
\* within its wait window returns ok = false, so that its cycle is skipped
\* and quarantines nothing.
C39_NoDataIsAFailedFetch ==
    [][\A outcome \in SourceOutcomes :
          (SourceCycle(outcome) /\ outcome.kind # "feed")
              => /\ ~GetLiveMatchesSummary(outcome).ok
                 /\ ~lastCycle'.ok
                 /\ quarantine_zone' = quarantine_zone]_vars

\* C40: when the poller is stopped and started again in the same process,
\* the quarantine map holds no record of the previous run when the new run
\* begins: it is empty when start() has returned, and nothing runs between
\* start() and the first cycle of the new run.
C40_RestartBeginsWithEmptyQuarantine ==
    [][(svcPc = "start" /\ svcPc' = "leading") => quarantine_zone' = EmptyMap]_vars

====
